---- MODULE Spec2Model ----
(***************************************************************************)
(* Order-dispatch core of the Gebeta delivery backend: the Order ledger    *)
(* (models/Order.js), the REST order controller (controllers/              *)
(* orderController.js, stored in src/models/FoodMenu.js) and the socket     *)
(* claim/complete handlers of the server/socket modules.                    *)
(*                                                                         *)
(* Every await on the database is a point where other handlers run, so a    *)
(* handler with several database round trips is one action per round trip.  *)
(* The requests in flight are the records of req; the step that ends a      *)
(* handler writes its answer to resp, a step that answers nobody clears it. *)
(***************************************************************************)
EXTENDS Integers, Sequences, FiniteSets, TLC

\* ---- bounds of the model ------------------------------------------------
NumOrders == 1
NumOrdersPair == 2
NumCouriers == 2
NumCouriersPair == 1
NumCustomers == 1
NumCodes == 2
NumCodesRouter == 1
MaxInflight == 2

Couriers == 1..NumCouriers
Customers == 1..NumCustomers
Codes == 1..NumCodes
RouterCodes == 1..NumCodesRouter

\* The devices that open socket connections, each the device of one user:
\* the first device of every courier (its number is the courier's), a second
\* device of courier 1, a customer, an admin, a manager, a user whose role is
\* none of the four, and a courier whose deliveryMethod is not set.
SecondDevice == NumCouriers + 1
CustomerDevice == NumCouriers + 2
AdminDevice == NumCouriers + 3
ManagerDevice == NumCouriers + 4
GuestDevice == NumCouriers + 5
NoMethodDevice == NumCouriers + 6
Sockets == 1..NoMethodDevice
PairCouriers == 1..NumCouriersPair

\* An absent (undefined) field of a document.
Absent == 0

Vehicles == {"Car", "Motor", "Bicycle"}
\* Vehicles the placement requests of the model ask for.
InputVehicles == {"Car", "Bicycle"}
OrderTypes == {"Delivery", "Takeaway"}
Statuses == {"Pending", "Preparing", "Cooked", "Delivering", "Completed", "Cancelled"}
Terminal == {"Completed", "Cancelled"}

\* A status flow in which Preparing is the target of an edge.
StatusFlowWithPreparing ==
  [Pending |-> {"Preparing", "Cooked", "Cancelled"},
   Preparing |-> {"Cooked", "Cancelled"},
   Cooked |-> {"Delivering", "Cancelled"},
   Delivering |-> {"Completed", "Cancelled"},
   Completed |-> {},
   Cancelled |-> {}]

\* Allowed order status transitions.
STATUS_FLOW ==
  [Pending |-> {"Cooked", "Cancelled"},
   Preparing |-> {"Cooked", "Cancelled"},
   Cooked |-> {"Delivering", "Cancelled"},
   Delivering |-> {"Completed", "Cancelled"},
   Completed |-> {},
   Cancelled |-> {}]

\* The registered couriers: user.deliveryMethod of each Delivery_Person.
deliveryMethod == [c \in Couriers |-> IF c <= 2 THEN "Car" ELSE "Bicycle"]

VARIABLES
  orders,               \* the Order collection: sequence of documents, _id = index
  strictQuery,          \* mongoose strictQuery of the build (version dependent)
  req,                  \* requests in flight: handler position and locals of each
  resp,                 \* the answer sent by the step just taken (NoResp: none)
  activeDeliveryOrders, \* Map courier -> {orderId, userId} (NoActive when unset)
  sockActiveOrder,      \* socket.activeOrder of each device's connection
  lastDeliveryLocations, \* courier ids holding a last known location
  conn,                 \* the devices whose connection is open and admitted
  registry,             \* deliverySockets, managerSockets, adminSockets and
                        \* the rooms: the set of their <<name, key, socket>>
  mapKeys,              \* the keys the three registry Maps have: <<name, key>>
  scan,                 \* populateActiveOrders of the running process:
                        \* "pending" or "done" (nothing to load at the first
                        \* start), "never" in a module that does not call it
  inactive              \* the customers whose account is deactivated
                        \* (active: false), which the find hook of User hides

vars == <<orders, strictQuery, req, resp, activeDeliveryOrders,
          sockActiveOrder, lastDeliveryLocations, conn, registry, mapKeys, scan,
          inactive>>

\* The connections and what the process start leaves behind.
links == <<conn, registry, mapKeys, scan, inactive>>

router == <<activeDeliveryOrders, sockActiveOrder, lastDeliveryLocations,
            conn, registry, mapKeys, scan, inactive>>

OrderIds == 1..Len(orders)

EmptyUpd == [f \in {} |-> f]

NoActive == [orderId |-> 0, userId |-> 0]

\* A handler suspended at an await: op and pc say where, who is the requester,
\* o the order it names, arg the code it submitted, upd the update its query
\* holds after the pre-update hook, names the fields the update it passed to
\* findOneAndUpdate names, stale whether a transaction's snapshot of o is out
\* of date, open whether o was paid, Cooked, Delivery-mode and unassigned when
\* a claim of it was issued, rivalWon whether another courier's claim of o,
\* issued on the open order too, was answered with success while this claim
\* was in flight.
Inflight(op, pc, who, o, arg, upd) ==
  [op |-> op, pc |-> pc, who |-> who, o |-> o, arg |-> arg, upd |-> upd,
   names |-> {}, stale |-> FALSE, open |-> FALSE, rivalWon |-> FALSE]

NoResp ==
  [op |-> "none", who |-> 0, o |-> 0, arg |-> 0, names |-> {}, status |-> "none",
   msg |-> "none", code |-> 0, afterRival |-> FALSE]

\* The answer to request x (a record with op, who, o, arg, names, rivalWon).
Answer(x, status, msg, code) ==
  [op |-> x.op, who |-> x.who, o |-> x.o, arg |-> x.arg, names |-> x.names,
   status |-> status, msg |-> msg, code |-> code, afterRival |-> x.rivalWon]

Ok(x, code) == Answer(x, "success", "ok", code)

Err(x, msg) == Answer(x, "error", msg, 0)

\* An async handler that threw outside its try block (or inside its catch
\* block): the promise is rejected, nobody is answered.
Unhandled(x, msg) == Answer(x, "unhandled", msg, 0)

\* A request that is answered by its first step.
Call(op, who, o, arg) == Inflight(op, "start", who, o, arg, EmptyUpd)

\* ---- the Order schema and its hooks --------------------------------------

\* An entry of a registry Map (deliverySockets, managerSockets, adminSockets:
\* key is the user id) or of a room ("customer" with the customer's id as key,
\* or the room of a vehicle).
Entry(name, key, s) == [name |-> name, key |-> key, sid |-> s]

\* The sockets io.to(room) reaches.
Room(name, key) == {e.sid : e \in {d \in registry : d.name = name /\ d.key = key}}

\* socket.emit / io.to(sid).emit of event ev to each socket of to.
Emit(ev, to) == {[ev |-> ev, to |-> t] : t \in to}

\* Order.create of placeOrder: status defaults to Pending, the courier and
\* the pickup code are absent, transaction.status is Pending.
NewOrder(user, type, vehicle, uvc) ==
  [userId |-> user,
   typeOfOrder |-> type,
   deliveryVehicle |-> IF type = "Delivery" THEN vehicle ELSE "null",
   orderStatus |-> "Pending",
   deliveryId |-> Absent,
   userVerificationCode |-> uvc,
   deliveryVerificationCode |-> Absent,
   txStatus |-> "Pending"]

\* A schema without the pre-find hooks.
PaidFilterOff(i) == TRUE

\* pre(['find','findOne']): without bypassPaidFilter only Paid orders are seen.
PaidFilter(i) == orders[i].txStatus = "Paid"

\* The timestamps plugin of the schema ({timestamps: true}) runs before the
\* schema's own pre-update hook and puts updatedAt into $set, creating $set
\* when the caller passed its fields at the top level of the update.
ApplyTimestamps(update) ==
  LET set == IF "$set" \in DOMAIN update THEN update["$set"] ELSE EmptyUpd
  IN  ("$set" :> ([updatedAt |-> "now"] @@ set)) @@ update

allowedFields == {"orderStatus", "deliveryId", "updatedAt"}

\* The fields an update names, at its top level or under $set.
UpdateNames(raw) ==
  (DOMAIN raw \ {"$set"}) \cup (IF "$set" \in DOMAIN raw THEN DOMAIN raw["$set"] ELSE {})

\* $set of a document: paths of the schema are written, others are dropped.
ApplySet(doc, set) ==
  [f \in DOMAIN doc |-> IF f \in DOMAIN set THEN set[f] ELSE doc[f]]

\* The pre-update hook without its orderStatus checks.
PreFindOneAndUpdateNoFlow(docFound, doc, raw, gen) ==
  LET stamped == ApplyTimestamps(raw)
      update == IF "$set" \in DOMAIN stamped THEN stamped["$set"] ELSE stamped
  IN  IF ~docFound THEN [err |-> "notFound", set |-> EmptyUpd]
      ELSE IF {f \in DOMAIN update : f \notin allowedFields} # {}
        THEN [err |-> "forbiddenField", set |-> EmptyUpd]
      ELSE [err |-> "none", set |-> update]

\* orderSchema.pre("findOneAndUpdate"): docFound/doc is the result of the
\* hook's own findOne(this.getQuery()), raw the update the caller passed,
\* gen the code generateVerificationCode() would return.  The result is the
\* error passed to next(), or the update handed to setUpdate().
PreFindOneAndUpdate(docFound, doc, raw, gen) ==
  LET stamped == ApplyTimestamps(raw)
      update == IF "$set" \in DOMAIN stamped THEN stamped["$set"] ELSE stamped
      invalidFields == {f \in DOMAIN update : f \notin allowedFields}
      withCode ==
        IF /\ "deliveryId" \in DOMAIN update
           /\ update["deliveryId"] # Absent
           /\ update["deliveryId"] # doc.deliveryId
        THEN [deliveryVerificationCode |-> gen] @@ update
        ELSE update
  IN  IF ~docFound THEN [err |-> "notFound", set |-> EmptyUpd]
      ELSE IF invalidFields # {} THEN [err |-> "forbiddenField", set |-> EmptyUpd]
      ELSE IF "orderStatus" \in DOMAIN update
                /\ doc.orderStatus \in Terminal
        THEN [err |-> "terminal", set |-> EmptyUpd]
      ELSE IF "orderStatus" \in DOMAIN update
                /\ update["orderStatus"] \notin STATUS_FLOW[doc.orderStatus]
        THEN [err |-> "transition", set |-> EmptyUpd]
      ELSE [err |-> "none", set |-> withCode]

\* A committed write to order i aborts, at their save, the transactions
\* that read i in their snapshot before this write (WriteConflict).
Touch(rq, i) ==
  {IF x.pc = "save" /\ x.o = i THEN [x EXCEPT !.stale = TRUE] ELSE x : x \in rq}

\* Another request can be taken while fewer than MaxInflight are suspended.
CanStart == Cardinality(req) < MaxInflight

\* ---- REST controller: placeOrder, chapaWebhook, updateOrderStatus ----------

\* placeOrder: validateAndComputeOrder succeeded and Order.create stored the
\* document (a Delivery order carries its vehicle, a Takeaway order none).
PlaceOrder(cap, user, type, vehicle, uvc) ==
  /\ Len(orders) < cap
  /\ orders' = Append(orders, NewOrder(user, type, vehicle, uvc))
  /\ resp' = Ok(Call("placeOrder", user, Len(orders) + 1, 0), 0)
  /\ UNCHANGED <<strictQuery, req, router>>

\* A payment callback whose save does not validate transaction.status.
ChapaWebhookUnvalidated(i, status) ==
  /\ i \in OrderIds
  /\ orders' = [orders EXCEPT ![i].txStatus =
                                 IF status = "success" THEN "Paid" ELSE "Failed"]
  /\ req' = Touch(req, i)
  /\ resp' = Ok(Call("chapaWebhook", 0, i, 0), 0)
  /\ UNCHANGED <<strictQuery, router>>

\* chapaWebhook: findById with bypassPaidFilter, then order.save(), which
\* validates transaction.status against its enum ["Pending", "Paid"].
ChapaWebhook(i, status) ==
  /\ i \in OrderIds
  /\ LET newStatus == IF status = "success" THEN "Paid" ELSE "Failed"
         x == Call("chapaWebhook", 0, i, 0)
     IN  IF newStatus \in {"Pending", "Paid"}
         THEN /\ orders' = [orders EXCEPT ![i].txStatus = newStatus]
              /\ req' = Touch(req, i)
              /\ resp' = Ok(x, 0)
         ELSE /\ resp' = Err(x, "validation")
              /\ UNCHANGED <<orders, req>>
  /\ UNCHANGED <<strictQuery, router>>

\* updateOrderStatus, first round trip: findOneAndUpdate({_id}, {$set:
\* {orderStatus}}) runs the pre-update hook, whose findOne reads the order.
UpdateOrderStatusHook(i, status) ==
  /\ CanStart
  /\ i \in OrderIds
  /\ LET raw == "$set" :> [orderStatus |-> status]
         h == PreFindOneAndUpdate(PaidFilter(i), orders[i], raw, Absent)
         x == [Call("updateOrderStatus", 0, i, 0) EXCEPT !.names = UpdateNames(raw)]
     IN  IF h.err # "none"
         THEN /\ resp' = Err(x, h.err)
              /\ UNCHANGED req
         ELSE /\ req' = req \cup {[x EXCEPT !.pc = "write", !.upd = h.set]}
              /\ resp' = NoResp
  /\ UNCHANGED <<orders, strictQuery, router>>

\* updateOrderStatus, second round trip: the update itself, applied by the
\* database to the document matching {_id} as it is now.
UpdateOrderStatusWrite(x) ==
  /\ x \in req
  /\ x.op = "updateOrderStatus" /\ x.pc = "write"
  /\ orders' = [orders EXCEPT ![x.o] = ApplySet(@, x.upd)]
  /\ req' = Touch(req \ {x}, x.o)
  /\ resp' = Ok(x, 0)
  /\ UNCHANGED <<strictQuery, router>>

\* ---- claim paths -----------------------------------------------------------

ClaimOps ==
  {"acceptOrder", "socketAcceptOrder", "socketAcceptOrderAtomic",
   "socketAcceptOrderAccepted", "socketAcceptOrderNoSession"}

\* The claims of order i by other couriers that are in flight when courier
\* c's claim of i is answered with success.
MarkRival(rq, c, i) ==
  {IF x.op \in ClaimOps /\ x.o = i /\ x.who # c /\ x.open
   THEN [x EXCEPT !.rivalWon = TRUE] ELSE x : x \in rq}

\* The requests in flight once claim x of an order was answered with success.
AfterClaim(rq, x) == IF x.open THEN MarkRival(rq, x.who, x.o) ELSE rq

\* Order.findOne({deliveryId: c, orderStatus: {$nin: [Completed, Cancelled]}})
\* finds a document (the find hook adds the Paid filter).
ExistingOrder(c) ==
  \E j \in OrderIds :
    /\ PaidFilter(j)
    /\ orders[j].deliveryId = c
    /\ orders[j].orderStatus \notin Terminal

\* {_id: i, orderStatus: 'Cooked', typeOfOrder: 'Delivery',
\*  deliveryId: {$exists: false}}
ClaimFilter(i) ==
  /\ orders[i].orderStatus = "Cooked"
  /\ orders[i].typeOfOrder = "Delivery"
  /\ orders[i].deliveryId = Absent

\* REST acceptOrder, first round trip: the check for an active order.
AcceptOrderCheck(c, i) ==
  /\ CanStart
  /\ i \in OrderIds
  /\ LET x == Call("acceptOrder", c, i, 0)
     IN  IF ExistingOrder(c)
         THEN /\ resp' = Err(x, "activeOrder")
              /\ UNCHANGED req
         ELSE /\ req' = req \cup {[x EXCEPT !.pc = "hook",
                                            !.open = PaidFilter(i) /\ ClaimFilter(i)]}
              /\ resp' = NoResp
  /\ UNCHANGED <<orders, strictQuery, router>>

\* REST acceptOrder, second round trip: findOneAndUpdate(filter, {deliveryId,
\* deliveryVerificationCode}) runs the pre-update hook on the update as the
\* caller passed it: the fields at the top level, updatedAt under $set.
AcceptOrderHook(x, gen) ==
  /\ x \in req
  /\ x.op = "acceptOrder" /\ x.pc = "hook"
  /\ LET raw == [deliveryId |-> x.who, deliveryVerificationCode |-> gen]
         h == PreFindOneAndUpdate(PaidFilter(x.o) /\ ClaimFilter(x.o), orders[x.o],
                                  raw, gen)
         y == [x EXCEPT !.names = UpdateNames(raw)]
     IN  IF h.err # "none"
         THEN /\ req' = req \ {x}
              /\ resp' = Err(y, h.err)
         ELSE /\ req' = (req \ {x}) \cup {[y EXCEPT !.pc = "write", !.upd = h.set]}
              /\ resp' = NoResp
  /\ UNCHANGED <<orders, strictQuery, router>>

\* REST acceptOrder, third round trip: the database applies the update the
\* hook left in the query to the document that matches the filter now, and
\* the handler answers with the returned document's pickup code.
AcceptOrderWrite(x) ==
  /\ x \in req
  /\ x.op = "acceptOrder" /\ x.pc = "write"
  /\ IF ClaimFilter(x.o)
     THEN /\ orders' = [orders EXCEPT ![x.o] = ApplySet(@, x.upd)]
          /\ req' = AfterClaim(Touch(req \ {x}, x.o), x)
          /\ resp' = Ok(x, orders'[x.o].deliveryVerificationCode)
     ELSE /\ req' = req \ {x}
          /\ resp' = Err(x, "notAvailable")
          /\ UNCHANGED orders
  /\ UNCHANGED <<strictQuery, router>>

\* Socket acceptOrder with findOneAndUpdate, first round trip: the hook.  The
\* courier id is the one the client sent.
SocketAcceptOrderAtomicHook(c, i, gen) ==
  /\ CanStart
  /\ i \in OrderIds
  /\ LET raw == [orderStatus |-> "Delivering", deliveryId |-> c,
                 deliveryVerificationCode |-> gen]
         x == [Call("socketAcceptOrderAtomic", c, i, 0)
                 EXCEPT !.names = UpdateNames(raw)]
         h == PreFindOneAndUpdate(PaidFilter(i) /\ ClaimFilter(i), orders[i], raw, gen)
     IN  IF h.err # "none"
         THEN /\ resp' = Err(x, h.err)
              /\ UNCHANGED req
         ELSE /\ req' = req \cup {[x EXCEPT !.pc = "write", !.upd = h.set,
                                            !.open = TRUE]}
              /\ resp' = NoResp
  /\ UNCHANGED <<orders, strictQuery, router>>

\* Socket acceptOrder with findOneAndUpdate, second round trip: the update,
\* then populate('restaurant_id') and order.restaurant_id._id on a path the
\* schema does not have (restaurantId), which throws into the catch block.
SocketAcceptOrderAtomicWrite(x) ==
  /\ x \in req
  /\ x.op = "socketAcceptOrderAtomic" /\ x.pc = "write"
  /\ IF ClaimFilter(x.o)
     THEN /\ orders' = [orders EXCEPT ![x.o] = ApplySet(@, x.upd)]
          /\ req' = Touch(req \ {x}, x.o)
          /\ resp' = Err(x, "failedToAccept")
     ELSE /\ req' = req \ {x}
          /\ resp' = Err(x, "notAvailable")
          /\ UNCHANGED orders
  /\ UNCHANGED <<strictQuery, router>>

\* Socket acceptOrder in a transaction, the reads: the active-order check,
\* findById and the vehicle check, all on the transaction's snapshot.
SocketAcceptOrderRead(c, i) ==
  /\ CanStart
  /\ i \in OrderIds
  /\ LET x == Call("socketAcceptOrder", c, i, 0)
     IN  IF ExistingOrder(c)
         THEN /\ resp' = Err(x, "activeOrder")
              /\ UNCHANGED req
         ELSE IF ~PaidFilter(i)
         THEN /\ resp' = Err(x, "notAvailable")
              /\ UNCHANGED req
         ELSE IF deliveryMethod[c] # orders[i].deliveryVehicle
         THEN /\ resp' = Err(x, "notEligible")
              /\ UNCHANGED req
         ELSE /\ req' = req \cup {[x EXCEPT !.pc = "save",
                                            !.open = ClaimFilter(i)]}
              /\ resp' = NoResp
  /\ UNCHANGED <<orders, strictQuery, router>>

\* Socket acceptOrder in a transaction, order.save() and the commit (the
\* save writes the two modified paths), then the caches and the callback.
\* A document written by somebody else since the snapshot aborts the save.
\* populate('userId') of an order whose customer is deactivated gives null:
\* the save either refuses the required path (depending on the mongoose
\* version) or commits, after which order.userId._id throws and
\* abortTransaction throws again inside the catch block.
SocketAcceptOrderSave(x, gen) ==
  /\ x \in req
  /\ x.op = "socketAcceptOrder" /\ x.pc = "save"
  /\ IF x.stale
     THEN /\ req' = req \ {x}
          /\ resp' = Err(x, "writeConflict")
          /\ UNCHANGED <<orders, router>>
     ELSE IF orders[x.o].userId \in inactive
     THEN \E passes \in BOOLEAN :
            IF passes
            THEN /\ orders' = [orders EXCEPT ![x.o].deliveryVerificationCode = gen,
                                             ![x.o].deliveryId = x.who]
                 /\ req' = Touch(req \ {x}, x.o)
                 /\ resp' = Unhandled(x, "TypeError")
                 /\ UNCHANGED <<activeDeliveryOrders, sockActiveOrder,
                                lastDeliveryLocations>>
            ELSE /\ req' = req \ {x}
                 /\ resp' = Err(x, "validation")
                 /\ UNCHANGED <<orders, activeDeliveryOrders, sockActiveOrder,
                                lastDeliveryLocations>>
     ELSE /\ orders' = [orders EXCEPT ![x.o].deliveryVerificationCode = gen,
                                      ![x.o].deliveryId = x.who]
          /\ req' = AfterClaim(Touch(req \ {x}, x.o), x)
          /\ LET activeOrderData == [orderId |-> x.o, userId |-> orders[x.o].userId]
             IN  /\ activeDeliveryOrders' =
                      [activeDeliveryOrders EXCEPT ![x.who] = activeOrderData]
                 /\ sockActiveOrder' = [sockActiveOrder EXCEPT ![x.who] = activeOrderData]
          /\ resp' = [events |-> Emit("requestLocationUpdate", conn \cap {x.who}) \cup
                                 Emit("orderAccepted",
                                      Room("customer", orders[x.o].userId))]
                      @@ Ok(x, gen)
          /\ UNCHANGED lastDeliveryLocations
  /\ UNCHANGED <<strictQuery, links>>

\* Socket acceptOrder that sets orderStatus = 'Accepted' before order.save():
\* the value is not in the enum of orderStatus, so the save is refused by
\* validation and the transaction is aborted.
SocketAcceptOrderAccepted(c, i) ==
  /\ i \in OrderIds
  /\ LET x == Call("socketAcceptOrderAccepted", c, i, 0)
     IN  resp' = IF ExistingOrder(c) THEN Err(x, "activeOrder")
                 ELSE IF ~PaidFilter(i) THEN Err(x, "notAvailable")
                 ELSE IF deliveryMethod[c] # orders[i].deliveryVehicle
                   THEN Err(x, "notEligible")
                 ELSE IF "Accepted" \notin Statuses THEN Err(x, "validation")
                 ELSE Ok(x, 0)
  /\ UNCHANGED <<orders, strictQuery, req, router>>

\* Socket acceptOrder of the socket module that does not import mongoose:
\* mongoose.startSession() throws a ReferenceError before the try block.
SocketAcceptOrderNoSession(c, i) ==
  /\ i \in OrderIds
  /\ resp' = Unhandled(Call("socketAcceptOrderNoSession", c, i, 0), "ReferenceError")
  /\ UNCHANGED <<orders, strictQuery, req, router>>

\* ---- the two handoffs: pickup and delivery ----------------------------------

\* pickUpOrder, first round trip: findById and the checks of the handler.
\* c is the authenticated requester, which the handler does not read.
PickUpOrderFind(c, i, code) ==
  /\ CanStart
  /\ i \in OrderIds
  /\ LET x == Call("pickUpOrder", c, i, code)
         order == orders[i]
     IN  IF ~PaidFilter(i)
         THEN /\ resp' = Err(x, "notFound") /\ UNCHANGED req
         ELSE IF order.typeOfOrder # "Delivery"
         THEN /\ resp' = Err(x, "notDelivery") /\ UNCHANGED req
         ELSE IF order.orderStatus = "Delivering"
         THEN /\ resp' = Err(x, "alreadyPickedUp") /\ UNCHANGED req
         ELSE IF order.orderStatus # "Cooked"
         THEN /\ resp' = Err(x, "notCooked") /\ UNCHANGED req
         ELSE IF order.deliveryVerificationCode # code
         THEN /\ resp' = Err(x, "invalidCode") /\ UNCHANGED req
         ELSE /\ req' = req \cup {[x EXCEPT !.pc = "hook"]}
              /\ resp' = NoResp
  /\ UNCHANGED <<orders, strictQuery, router>>

\* pickUpOrder, second round trip: the pre-update hook of
\* findOneAndUpdate({_id}, {$set: {orderStatus: 'Delivering'}}).
PickUpOrderHook(x) ==
  /\ x \in req
  /\ x.op = "pickUpOrder" /\ x.pc = "hook"
  /\ LET raw == "$set" :> [orderStatus |-> "Delivering"]
         h == PreFindOneAndUpdate(PaidFilter(x.o), orders[x.o], raw, Absent)
         y == [x EXCEPT !.names = UpdateNames(raw)]
     IN  IF h.err # "none"
         THEN /\ req' = req \ {x}
              /\ resp' = Err(y, h.err)
         ELSE /\ req' = (req \ {x}) \cup {[y EXCEPT !.pc = "write", !.upd = h.set]}
              /\ resp' = NoResp
  /\ UNCHANGED <<orders, strictQuery, router>>

\* pickUpOrder, third round trip: the update of the document {_id}.
PickUpOrderWrite(x) ==
  /\ x \in req
  /\ x.op = "pickUpOrder" /\ x.pc = "write"
  /\ orders' = [orders EXCEPT ![x.o] = ApplySet(@, x.upd)]
  /\ req' = Touch(req \ {x}, x.o)
  /\ resp' = Ok(x, 0)
  /\ UNCHANGED <<strictQuery, router>>

\* The filter of verifyOrderDelivery names order_code and
\* user_verification_code, which are no paths of the schema (orderCode,
\* userVerificationCode).  Under strictQuery they are stripped and what is
\* left is {orderStatus: 'Delivering', deliveryId}; otherwise they stay in
\* the filter and no document has them.
VerifyFilter(j, c) ==
  /\ strictQuery
  /\ orders[j].orderStatus = "Delivering"
  /\ orders[j].deliveryId = c

\* verifyOrderDelivery, first round trip: the pre-update hook.  An error of
\* the hook lands in the catch block, whose log line reads order_id, a name
\* declared inside the try block: the handler throws and answers nobody.
VerifyOrderDeliveryHook(c, code) ==
  /\ CanStart
  /\ LET raw == "$set" :> [orderStatus |-> "Completed"]
         x == [Call("verifyOrderDelivery", c, 0, code) EXCEPT !.names = UpdateNames(raw)]
         found == {j \in OrderIds : PaidFilter(j) /\ VerifyFilter(j, c)}
     IN  IF found = {}
         THEN /\ resp' = Unhandled(x, "ReferenceError")
              /\ UNCHANGED req
         ELSE \E j \in found :
                LET h == PreFindOneAndUpdate(TRUE, orders[j], raw, Absent)
                IN  IF h.err # "none"
                    THEN /\ resp' = Unhandled(x, "ReferenceError")
                         /\ UNCHANGED req
                    ELSE /\ req' = req \cup {[x EXCEPT !.pc = "write", !.upd = h.set]}
                         /\ resp' = NoResp
  /\ UNCHANGED <<orders, strictQuery, router>>

\* verifyOrderDelivery, second round trip: the update of a document that
\* matches the filter now; when none does the handler answers an error.
VerifyOrderDeliveryWrite(x) ==
  /\ x \in req
  /\ x.op = "verifyOrderDelivery" /\ x.pc = "write"
  /\ LET found == {j \in OrderIds : VerifyFilter(j, x.who)}
     IN  IF found = {}
         THEN /\ req' = req \ {x}
              /\ resp' = Err(x, "notUpdated")
              /\ UNCHANGED orders
         ELSE \E j \in found :
                /\ orders' = [orders EXCEPT ![j] = ApplySet(@, x.upd)]
                /\ req' = Touch(req \ {x}, j)
                /\ resp' = Ok([x EXCEPT !.o = j], 0)
  /\ UNCHANGED <<strictQuery, router>>

\* Socket completeOrder in a transaction, the read: findById and the check
\* that the order's courier is the socket's user (order.deliveryId.toString()
\* of an unassigned order throws into the catch block).
SocketCompleteOrderRead(c, i) ==
  /\ CanStart
  /\ i \in OrderIds
  /\ LET x == Call("socketCompleteOrder", c, i, 0)
     IN  IF ~PaidFilter(i)
         THEN /\ resp' = Err(x, "cannotComplete") /\ UNCHANGED req
         ELSE IF orders[i].deliveryId = Absent
         THEN /\ resp' = Err(x, "typeError") /\ UNCHANGED req
         ELSE IF orders[i].deliveryId # c
         THEN /\ resp' = Err(x, "cannotComplete") /\ UNCHANGED req
         ELSE /\ req' = req \cup {[x EXCEPT !.pc = "save"]}
              /\ resp' = NoResp
  /\ UNCHANGED <<orders, strictQuery, router>>

\* Socket completeOrder in a transaction, order.save() and the commit, then
\* the caches, the notifications and the callback.  With a deactivated
\* customer the save is refused or, after the commit and the cache deletes,
\* order.userId._id throws and nobody is answered.
SocketCompleteOrderSave(x) ==
  /\ x \in req
  /\ x.op = "socketCompleteOrder" /\ x.pc = "save"
  /\ IF x.stale
     THEN /\ req' = req \ {x}
          /\ resp' = Err(x, "writeConflict")
          /\ UNCHANGED <<orders, router>>
     ELSE IF orders[x.o].userId \in inactive
     THEN \E passes \in BOOLEAN :
            IF passes
            THEN /\ orders' = [orders EXCEPT ![x.o].orderStatus = "Completed"]
                 /\ req' = Touch(req \ {x}, x.o)
                 /\ activeDeliveryOrders' = [activeDeliveryOrders EXCEPT ![x.who] = NoActive]
                 /\ lastDeliveryLocations' = lastDeliveryLocations \ {x.who}
                 /\ sockActiveOrder' = [sockActiveOrder EXCEPT ![x.who] = NoActive]
                 /\ resp' = Unhandled(x, "TypeError")
            ELSE /\ req' = req \ {x}
                 /\ resp' = Err(x, "validation")
                 /\ UNCHANGED <<orders, activeDeliveryOrders, sockActiveOrder,
                                lastDeliveryLocations>>
     ELSE /\ orders' = [orders EXCEPT ![x.o].orderStatus = "Completed"]
          /\ req' = Touch(req \ {x}, x.o)
          /\ activeDeliveryOrders' = [activeDeliveryOrders EXCEPT ![x.who] = NoActive]
          /\ lastDeliveryLocations' = lastDeliveryLocations \ {x.who}
          /\ sockActiveOrder' = [sockActiveOrder EXCEPT ![x.who] = NoActive]
          /\ resp' = [events |-> Emit("orderCompleted",
                                      Room("customer", orders[x.o].userId) \cup
                                      {e.sid : e \in {d \in registry :
                                                        d.name = "adminSockets"}})]
                      @@ Ok(x, 0)
  /\ UNCHANGED <<strictQuery, links>>

\* Socket completeOrder of the socket module that does not import mongoose.
SocketCompleteOrderNoSession(c, i) ==
  /\ i \in OrderIds
  /\ resp' = Unhandled(Call("socketCompleteOrderNoSession", c, i, 0), "ReferenceError")
  /\ UNCHANGED <<orders, strictQuery, req, router>>

\* deleteUser: findByIdAndUpdate(id, {active: false}).
DeleteUser(u) ==
  /\ u \notin inactive
  /\ inactive' = inactive \cup {u}
  /\ resp' = Ok(Call("deleteUser", u, 0, 0), 0)
  /\ UNCHANGED <<orders, strictQuery, req, activeDeliveryOrders, sockActiveOrder,
                 lastDeliveryLocations, conn, registry, mapKeys, scan>>

\* ---- order reads -----------------------------------------------------------

\* The answer to a read: ids are the documents the query returned or counted.
Listing(x, ids) == [ids |-> ids] @@ Ok(x, Cardinality(ids))

ReadOps ==
  {"getAvailableCookedOrders", "getAvailableCookedOrdersCount",
   "getOrdersByRestaurantId", "getMyOrders"}

\* getAvailableCookedOrders: Order.find({Cooked, Delivery, no deliveryId}),
\* a find, so the pre-find hook adds the Paid filter.
GetAvailableCookedOrders(c) ==
  /\ resp' = Listing(Call("getAvailableCookedOrders", c, 0, 0),
                     {j \in OrderIds : PaidFilter(j) /\ ClaimFilter(j)})
  /\ UNCHANGED <<orders, strictQuery, req, router>>

\* getAvailableCookedOrdersCount: Order.countDocuments with the same filter;
\* the schema has no hook for countDocuments.
GetAvailableCookedOrdersCount(c) ==
  /\ resp' = Listing(Call("getAvailableCookedOrdersCount", c, 0, 0),
                     {j \in OrderIds : ClaimFilter(j)})
  /\ UNCHANGED <<orders, strictQuery, req, router>>

\* getOrdersByRestaurantId: Order.find({restaurantId}) (one restaurant).
GetOrdersByRestaurantId ==
  /\ resp' = Listing(Call("getOrdersByRestaurantId", 0, 0, 0),
                     {j \in OrderIds : PaidFilter(j)})
  /\ UNCHANGED <<orders, strictQuery, req, router>>

\* getMyOrders: Order.find({userId}).
GetMyOrders(u) ==
  /\ resp' = Listing(Call("getMyOrders", u, 0, 0),
                     {j \in OrderIds : PaidFilter(j) /\ orders[j].userId = u})
  /\ UNCHANGED <<orders, strictQuery, req, router>>

\* populateActiveOrders: Order.find({Delivering, deliveryId set}).
ActiveOrdersFound ==
  {j \in OrderIds : /\ PaidFilter(j)
                    /\ orders[j].orderStatus = "Delivering"
                    /\ orders[j].deliveryId # Absent}

\* ---- the socket router: connections, locations, process start ---------------

\* socket.user of the connection a device opens.
SocketUser(s) ==
  IF s \in Couriers
    THEN [role |-> "Delivery_Person", id |-> s, method |-> deliveryMethod[s]]
  ELSE IF s = SecondDevice
    THEN [role |-> "Delivery_Person", id |-> 1, method |-> deliveryMethod[1]]
  ELSE IF s = CustomerDevice THEN [role |-> "Customer", id |-> 1, method |-> "none"]
  ELSE IF s = AdminDevice THEN [role |-> "Admin", id |-> 1, method |-> "none"]
  ELSE IF s = ManagerDevice THEN [role |-> "Manager", id |-> 1, method |-> "none"]
  ELSE IF s = GuestDevice THEN [role |-> "Guest", id |-> 1, method |-> "none"]
  ELSE [role |-> "Delivery_Person", id |-> SecondDevice, method |-> "none"]

Roles == {"Customer", "Delivery_Person", "Manager", "Admin"}

\* What a step of the router did: the events it emitted, on socket s.
Routed(op, s, status, events) ==
  [events |-> events, sock |-> s] @@
    Answer(Call(op, SocketUser(s).id, 0, 0), status, "ok", 0)

\* The registry Map of a role: deliverySockets, managerSockets, adminSockets;
\* a customer is in a room only.
RegistryOf(role) ==
  CASE role = "Delivery_Person" -> "deliverySockets"
    [] role = "Manager" -> "managerSockets"
    [] role = "Admin" -> "adminSockets"
    [] OTHER -> "none"

\* A key of a registry Map.
MapKey(name, key) == [name |-> name, key |-> key]

\* The keys after the disconnect handler of a socket of user u has deleted
\* the socket id, reg being the entries that are left: the key of u in the
\* registry of its role is deleted when its set has the size 0.
KeysLeft(u, reg) ==
  {k \in mapKeys :
     ~ /\ k = MapKey(RegistryOf(u.role), u.id)
       /\ {e \in reg : e.name = k.name /\ e.key = k.key} = {}}

AdmittedAny(u) == TRUE

\* The two checks of the connection handler: the role is one of the four,
\* and the deliveryMethod of a courier is one of the three vehicles.
Admitted(u) ==
  /\ u.role \in Roles
  /\ u.role = "Delivery_Person" => u.method \in Vehicles

\* io.on('connection'): the role check, the registries and rooms of the
\* role, and for a courier the restore of its active order from
\* activeDeliveryOrders.  A refused socket is disconnected before any
\* handler is registered on it.
Connect(s) ==
  /\ s \notin conn
  /\ LET u == SocketUser(s)
         welcome == Emit("message", {s})
     IN  IF ~Admitted(u)
         THEN /\ resp' = Routed("connection", s, "refused", Emit("errorMessage", {s}))
              /\ UNCHANGED <<conn, registry, mapKeys, sockActiveOrder>>
         ELSE /\ conn' = conn \cup {s}
              /\ mapKeys' = IF RegistryOf(u.role) = "none" THEN mapKeys
                            ELSE mapKeys \cup {MapKey(RegistryOf(u.role), u.id)}
              /\ registry' = registry \cup
                   (CASE u.role = "Admin" -> {Entry("adminSockets", u.id, s)}
                      [] u.role = "Customer" -> {Entry("customer", u.id, s)}
                      [] u.role = "Manager" -> {Entry("managerSockets", u.id, s)}
                      [] u.role = "Delivery_Person" ->
                           {Entry(u.method, 0, s), Entry("deliverySockets", u.id, s)}
                      [] OTHER -> {})
              /\ IF u.role = "Delivery_Person" /\ activeDeliveryOrders[u.id] # NoActive
                 THEN /\ sockActiveOrder' =
                           [sockActiveOrder EXCEPT ![s] = activeDeliveryOrders[u.id]]
                      /\ resp' = Routed("connection", s, "admitted",
                                         welcome \cup Emit("requestLocationUpdate", {s}))
                 ELSE /\ sockActiveOrder' = [sockActiveOrder EXCEPT ![s] = NoActive]
                      /\ resp' = Routed("connection", s, "admitted", welcome)
  /\ UNCHANGED <<orders, strictQuery, req, activeDeliveryOrders,
                 lastDeliveryLocations, scan, inactive>>

DisconnectKeepsCache(s) ==
  /\ s \in conn
  /\ conn' = conn \ {s}
  /\ registry' = {e \in registry : e.sid # s}
  /\ mapKeys' = KeysLeft(SocketUser(s), registry')
  /\ resp' = Routed("disconnect", s, "closed", {})
  /\ UNCHANGED <<orders, strictQuery, req, scan, inactive, activeDeliveryOrders,
                 lastDeliveryLocations, sockActiveOrder>>

\* A disconnect handler that leaves the user's key in the registry of the
\* role when its set of socket ids has become empty.
DisconnectLeavesKey(s) ==
  /\ s \in conn
  /\ LET u == SocketUser(s)
         holds == u.role = "Delivery_Person" /\ sockActiveOrder[s] # NoActive
     IN  /\ conn' = conn \ {s}
         /\ registry' = {e \in registry : e.sid # s}
         /\ activeDeliveryOrders' =
              IF holds THEN [activeDeliveryOrders EXCEPT ![u.id] = NoActive]
              ELSE activeDeliveryOrders
         /\ lastDeliveryLocations' =
              IF holds THEN lastDeliveryLocations \ {u.id} ELSE lastDeliveryLocations
         /\ sockActiveOrder' =
              IF holds THEN [sockActiveOrder EXCEPT ![s] = NoActive] ELSE sockActiveOrder
         /\ resp' = Routed("disconnect", s, "closed", {})
  /\ UNCHANGED <<orders, strictQuery, req, scan, inactive, mapKeys>>

\* socket.on('disconnect'): the socket leaves its rooms (socket.io) and the
\* registry of its role, whose key is deleted with its last socket id; a
\* courier socket that carries an active order deletes the courier's entries
\* of the two global maps.
Disconnect(s) ==
  /\ s \in conn
  /\ LET u == SocketUser(s)
         holds == u.role = "Delivery_Person" /\ sockActiveOrder[s] # NoActive
     IN  /\ conn' = conn \ {s}
         /\ registry' = {e \in registry : e.sid # s}
         /\ mapKeys' = KeysLeft(u, registry')
         /\ activeDeliveryOrders' =
              IF holds THEN [activeDeliveryOrders EXCEPT ![u.id] = NoActive]
              ELSE activeDeliveryOrders
         /\ lastDeliveryLocations' =
              IF holds THEN lastDeliveryLocations \ {u.id} ELSE lastDeliveryLocations
         /\ sockActiveOrder' =
              IF holds THEN [sockActiveOrder EXCEPT ![s] = NoActive] ELSE sockActiveOrder
         /\ resp' = Routed("disconnect", s, "closed", {})
  /\ UNCHANGED <<orders, strictQuery, req, scan, inactive>>

\* The kinds of value a coordinate of a locationUpdate payload can have.
Coordinates == {"missing", "zero", "number", "NaN", "Infinity", "text"}

\* The payloads: location.latitude and location.longitude.
Payloads == [latitude : Coordinates, longitude : Coordinates]

\* !v is false: the value is neither undefined, 0, NaN nor the empty string.
Truthy(v) == v \in {"number", "Infinity", "text"}

\* The check of the locationUpdate handler:
\* !location || !location.latitude || !location.longitude.
ValidLocation(location) == Truthy(location.latitude) /\ Truthy(location.longitude)

\* socket.on('locationUpdate') of a courier socket: an invalid location is
\* dropped; a valid one is stored, the socket's active order is synced from
\* activeDeliveryOrders when it has none, every admin socket gets the event
\* and so does the room of the customer of the socket's active order.
LocationUpdate(s, valid) ==
  /\ s \in conn
  /\ SocketUser(s).role = "Delivery_Person"
  /\ LET id == SocketUser(s).id
         active == IF sockActiveOrder[s] = NoActive THEN activeDeliveryOrders[id]
                   ELSE sockActiveOrder[s]
         admins == {e.sid : e \in {d \in registry : d.name = "adminSockets"}}
     IN  IF ~valid
         THEN /\ resp' = Routed("locationUpdate", s, "dropped", {})
              /\ UNCHANGED <<sockActiveOrder, lastDeliveryLocations>>
         ELSE /\ lastDeliveryLocations' = lastDeliveryLocations \cup {id}
              /\ sockActiveOrder' = [sockActiveOrder EXCEPT ![s] = active]
              /\ resp' = Routed("locationUpdate", s, "forwarded",
                     Emit("deliveryLocationUpdate", admins) \cup
                     (IF active # NoActive
                      THEN Emit("deliveryLocationUpdate", Room("customer", active.userId))
                      ELSE {}))
  /\ UNCHANGED <<orders, strictQuery, req, activeDeliveryOrders, conn, registry,
                 mapKeys, scan, inactive>>

\* The process restarts: the maps, the connections and the suspended
\* handlers are gone, the orders stay.  The module that is started calls
\* populateActiveOrders once the database is connected, or never calls it.
Restart ==
  /\ req' = {}
  /\ activeDeliveryOrders' = [c \in Couriers |-> NoActive]
  /\ sockActiveOrder' = [s \in Sockets |-> NoActive]
  /\ lastDeliveryLocations' = {}
  /\ conn' = {}
  /\ registry' = {}
  /\ mapKeys' = {}
  /\ scan' \in {"pending", "never"}
  /\ resp' = [events |-> {}, sock |-> 0] @@ Ok(Call("restart", 0, 0, 0), 0)
  /\ UNCHANGED <<orders, strictQuery, inactive>>

\* populateActiveOrders: every Delivering order with a courier that the find
\* returns is put into activeDeliveryOrders under its courier (of two orders
\* of one courier the one the cursor returns last stays), then every
\* connected socket of a courier with an entry is asked for its location.
PopulateActiveOrders ==
  /\ scan = "pending"
  /\ \E last \in [Couriers -> OrderIds \cup {0}] :
       /\ \A c \in Couriers :
            IF \E j \in ActiveOrdersFound : orders[j].deliveryId = c
            THEN last[c] \in ActiveOrdersFound /\ orders[last[c]].deliveryId = c
            ELSE last[c] = 0
       /\ activeDeliveryOrders' =
            [c \in Couriers |->
               IF last[c] = 0 THEN activeDeliveryOrders[c]
               ELSE [orderId |-> last[c], userId |-> orders[last[c]].userId]]
  /\ scan' = "done"
  /\ resp' = [events |-> UNION {Emit("requestLocationUpdate", Room("deliverySockets", c)) :
                                 c \in {d \in Couriers : activeDeliveryOrders'[d] # NoActive}},
              sock |-> 0] @@ Ok(Call("populateActiveOrders", 0, 0, 0), 0)
  /\ UNCHANGED <<orders, strictQuery, req, sockActiveOrder, lastDeliveryLocations,
                 conn, registry, mapKeys, inactive>>

Init ==
  /\ orders = <<>>
  /\ strictQuery \in BOOLEAN
  /\ req = {}
  /\ resp = NoResp
  /\ activeDeliveryOrders = [c \in Couriers |-> NoActive]
  /\ sockActiveOrder = [s \in Sockets |-> NoActive]
  /\ lastDeliveryLocations = {}
  /\ conn = {}
  /\ registry = {}
  /\ mapKeys = {}
  /\ scan = "done"
  /\ inactive = {}

Next ==
  \/ \E u \in Customers, t \in OrderTypes, v \in InputVehicles, k \in Codes :
       PlaceOrder(NumOrders, u, t, v, k)
  \/ \E i \in OrderIds, s \in {"success", "failed"} : ChapaWebhook(i, s)
  \/ \E i \in OrderIds, s \in Statuses : UpdateOrderStatusHook(i, s)
  \/ \E x \in req : UpdateOrderStatusWrite(x)
  \/ \E c \in Couriers, i \in OrderIds : AcceptOrderCheck(c, i)
  \/ \E x \in req, k \in Codes : AcceptOrderHook(x, k)
  \/ \E x \in req : AcceptOrderWrite(x)
  \/ \E c \in Couriers, i \in OrderIds, k \in Codes : SocketAcceptOrderAtomicHook(c, i, k)
  \/ \E x \in req : SocketAcceptOrderAtomicWrite(x)
  \/ \E c \in Couriers, i \in OrderIds : SocketAcceptOrderRead(c, i)
  \/ \E x \in req, k \in Codes : SocketAcceptOrderSave(x, k)
  \/ \E c \in Couriers, i \in OrderIds : SocketAcceptOrderAccepted(c, i)
  \/ \E c \in Couriers, i \in OrderIds : SocketAcceptOrderNoSession(c, i)
  \/ \E c \in Couriers, i \in OrderIds, k \in Codes : PickUpOrderFind(c, i, k)
  \/ \E x \in req : PickUpOrderHook(x)
  \/ \E x \in req : PickUpOrderWrite(x)
  \/ \E c \in Couriers, k \in Codes : VerifyOrderDeliveryHook(c, k)
  \/ \E x \in req : VerifyOrderDeliveryWrite(x)
  \/ \E c \in Couriers, i \in OrderIds : SocketCompleteOrderRead(c, i)
  \/ \E x \in req : SocketCompleteOrderSave(x)
  \/ \E c \in Couriers, i \in OrderIds : SocketCompleteOrderNoSession(c, i)

Spec == Init /\ [][Next]_vars

\* The transactional claim protocol of NumCouriersPair couriers on a ledger
\* of NumOrdersPair Delivery orders: placement, payment, the restaurant marking
\* an order cooked or cancelling it, the socket claim and the socket completion.
InitPair == Init /\ ~strictQuery

NextPair ==
  \/ \E u \in Customers, v \in InputVehicles, k \in Codes :
       PlaceOrder(NumOrdersPair, u, "Delivery", v, k)
  \/ \E i \in OrderIds : ChapaWebhook(i, "success")
  \/ \E i \in OrderIds, s \in {"Cooked", "Cancelled"} : UpdateOrderStatusHook(i, s)
  \/ \E x \in req : UpdateOrderStatusWrite(x)
  \/ \E c \in PairCouriers, i \in OrderIds : SocketAcceptOrderRead(c, i)
  \/ \E x \in req, k \in Codes : SocketAcceptOrderSave(x, k)
  \/ \E c \in PairCouriers, i \in OrderIds : SocketCompleteOrderRead(c, i)
  \/ \E x \in req : SocketCompleteOrderSave(x)

SpecPair == InitPair /\ [][NextPair]_vars

\* The order ledger under the status updates of the restaurant and the
\* courier's transactional claim, pickup and completion of one order.
NextLedger ==
  \/ \E u \in Customers, t \in OrderTypes, v \in InputVehicles, k \in Codes :
       PlaceOrder(NumOrders, u, t, v, k)
  \/ \E i \in OrderIds, s \in {"success", "failed"} : ChapaWebhook(i, s)
  \/ \E i \in OrderIds, s \in Statuses : UpdateOrderStatusHook(i, s)
  \/ \E x \in req : UpdateOrderStatusWrite(x)
  \/ \E c \in Couriers, i \in OrderIds : SocketAcceptOrderRead(c, i)
  \/ \E x \in req, k \in Codes : SocketAcceptOrderSave(x, k)
  \/ \E c \in Couriers, i \in OrderIds, k \in Codes : PickUpOrderFind(c, i, k)
  \/ \E x \in req : PickUpOrderHook(x)
  \/ \E x \in req : PickUpOrderWrite(x)
  \/ \E c \in Couriers, i \in OrderIds : SocketCompleteOrderRead(c, i)
  \/ \E x \in req : SocketCompleteOrderSave(x)

SpecLedger == InitPair /\ [][NextLedger]_vars

\* The reads of the order collection next to placement, payment and the
\* status updates, on a ledger of NumOrdersPair orders.
NextReads ==
  \/ \E u \in Customers, t \in OrderTypes, v \in InputVehicles, k \in Codes :
       PlaceOrder(NumOrdersPair, u, t, v, k)
  \/ \E i \in OrderIds, s \in {"success", "failed"} : ChapaWebhook(i, s)
  \/ \E i \in OrderIds, s \in Statuses : UpdateOrderStatusHook(i, s)
  \/ \E x \in req : UpdateOrderStatusWrite(x)
  \/ \E c \in Couriers : GetAvailableCookedOrders(c)
  \/ \E c \in Couriers : GetAvailableCookedOrdersCount(c)
  \/ GetOrdersByRestaurantId
  \/ \E u \in Customers : GetMyOrders(u)

SpecReads == InitPair /\ [][NextReads]_vars

\* The router with the life of one order: the devices of RouterDevices
\* connect, send locations and disconnect, courier 1 claims, picks up and
\* completes the order over its first device, the process restarts.
RouterDevices == {1, SecondDevice, CustomerDevice, AdminDevice}

NextRouter ==
  \/ \E u \in Customers, k \in RouterCodes :
       PlaceOrder(NumOrders, u, "Delivery", deliveryMethod[1], k)
  \/ \E i \in OrderIds : ChapaWebhook(i, "success")
  \/ \E i \in OrderIds, s \in {"Cooked", "Cancelled"} : UpdateOrderStatusHook(i, s)
  \/ \E x \in req : UpdateOrderStatusWrite(x)
  \/ \E c \in PairCouriers, i \in OrderIds : c \in conn /\ SocketAcceptOrderRead(c, i)
  \/ \E x \in req, k \in RouterCodes : SocketAcceptOrderSave(x, k)
  \/ \E c \in PairCouriers, i \in OrderIds, k \in RouterCodes : PickUpOrderFind(c, i, k)
  \/ \E x \in req : PickUpOrderHook(x)
  \/ \E x \in req : PickUpOrderWrite(x)
  \/ \E c \in PairCouriers, i \in OrderIds : c \in conn /\ SocketCompleteOrderRead(c, i)
  \/ \E x \in req : SocketCompleteOrderSave(x)
  \/ \E s \in RouterDevices : Connect(s)
  \/ \E s \in RouterDevices : Disconnect(s)
  \/ \E s \in RouterDevices, valid \in BOOLEAN : LocationUpdate(s, valid)
  \/ Restart
  \/ PopulateActiveOrders

SpecRouter == InitPair /\ [][NextRouter]_vars

\* Admission: every device connects, couriers send locations, devices
\* disconnect; no order exists.
NextAdmission ==
  \/ \E s \in Sockets : Connect(s)
  \/ \E s \in Sockets : Disconnect(s)
  \/ \E s \in Sockets, valid \in BOOLEAN : LocationUpdate(s, valid)

SpecAdmission == InitPair /\ [][NextAdmission]_vars

\* ---- delivery fee ------------------------------------------------------------

\* The answers of the routing oracle: the distance of the first route in
\* metres, no route at all, or a failed request (axios.get rejects).
NoRoute == -1
OracleDown == -2
MaxMetres == 2500
OracleDistances == {OracleDown, NoRoute, 0, 1, 999, 1000, 1001, MaxMetres}

\* The environments the rate table is read from: no variable set (the
\* defaults of the code) or every variable set.
Environments == {"unset", "configured"}

\* rateConfig: parseFloat(process.env.X || default) for each vehicle.
rateConfig(env) ==
  IF env = "unset"
  THEN [Car |-> [base |-> 150, perKm |-> 13],
        Motor |-> [base |-> 100, perKm |-> 10],
        Bicycle |-> [base |-> 50, perKm |-> 10]]
  ELSE [Car |-> [base |-> 200, perKm |-> 15],
        Motor |-> [base |-> 120, perKm |-> 12],
        Bicycle |-> [base |-> 60, perKm |-> 7]]

\* Math.ceil of thousandths / 1000.
CeilThousandths(t) == (t + 999) \div 1000

\* What a call of computeDeliveryFee was given and what it gave back; calls
\* counts the requests to the oracle, the one axios.get that follows the
\* destination check.
FeeAnswer(dest, vehicle, metres, env, status, msg, fee) ==
  [op |-> "computeDeliveryFee", dest |-> dest, vehicle |-> vehicle,
   metres |-> metres, env |-> env, status |-> status, msg |-> msg, deliveryFee |-> fee,
   calls |-> IF dest THEN 1 ELSE 0]

computeDeliveryFeeUnchecked(dest, vehicle, metres, env) ==
  FeeAnswer(dest, vehicle, metres, env, "success", "ok",
            CeilThousandths(rateConfig(env).Car.base * 1000 + rateConfig(env).Car.perKm * metres))

\* computeDeliveryFee: the destination check, the oracle's distance and its
\* falsy check, the rate of the vehicle, rawFee = base + perKm * distanceKm
\* (here in thousandths, distanceKm = metres / 1000) and its ceiling.
computeDeliveryFee(dest, vehicle, metres, env) ==
  IF ~dest
  THEN FeeAnswer(dest, vehicle, metres, env, "error", "coordinatesRequired", 0)
  ELSE IF metres = OracleDown
  THEN FeeAnswer(dest, vehicle, metres, env, "error", "oracleFailed", 0)
  ELSE IF metres = NoRoute \/ metres = 0
  THEN FeeAnswer(dest, vehicle, metres, env, "error", "distanceFailed", 0)
  ELSE IF vehicle \notin DOMAIN rateConfig(env)
  THEN FeeAnswer(dest, vehicle, metres, env, "error", "invalidVehicle", 0)
  ELSE LET selectedRate == rateConfig(env)[vehicle]
           rawFee == selectedRate.base * 1000 + selectedRate.perKm * metres
       IN  FeeAnswer(dest, vehicle, metres, env, "success", "ok", CeilThousandths(rawFee))

\* One estimation; req keeps the answer of the estimation before it.
Estimate(dest, vehicle, metres, env) ==
  /\ req' = IF resp.op = "computeDeliveryFee" THEN {resp} ELSE {}
  /\ resp' = computeDeliveryFee(dest, vehicle, metres, env)
  /\ UNCHANGED <<orders, strictQuery, router>>

NextFee ==
  \E dest \in BOOLEAN, vehicle \in Vehicles \cup {"Truck"},
     metres \in OracleDistances, env \in Environments :
       Estimate(dest, vehicle, metres, env)

SpecFee == InitPair /\ [][NextFee]_vars

\* ---- placement with its fee estimation --------------------------------------

\* What validateAndComputeOrder gives back: the fee and the distance of the
\* order, or the error it throws.
Computed(status, msg, fee, metres) ==
  [status |-> status, msg |-> msg, deliveryFee |-> fee, distance |-> metres]

validateAndComputeOrderLenient(type, dest, vehicle, metres, env) ==
  Computed("success", "ok", 0, 0)

\* validateAndComputeOrder, the part that concerns the fee: a Delivery order
\* needs a vehicle of the three and a destination, and its fee and distance
\* come from computeDeliveryFee, whose error is thrown on; a Takeaway order
\* has the fee 0 and the distance 0.
validateAndComputeOrder(type, dest, vehicle, metres, env) ==
  IF type = "Delivery"
  THEN IF vehicle \notin Vehicles THEN Computed("error", "invalidVehicle", 0, 0)
       ELSE IF ~dest THEN Computed("error", "coordinatesRequired", 0, 0)
       ELSE LET fee == computeDeliveryFee(dest, vehicle, metres, env)
            IN  IF fee.status = "success"
                THEN Computed("success", "ok", fee.deliveryFee, metres)
                ELSE Computed("error", fee.msg, 0, 0)
  ELSE Computed("success", "ok", 0, 0)

\* The inputs and the outcome of a placeOrder request.
Placed(type, dest, vehicle, metres, env, status, msg, o) ==
  [op |-> "placeOrder", type |-> type, dest |-> dest, vehicle |-> vehicle,
   metres |-> metres, env |-> env, status |-> status, msg |-> msg, o |-> o]

\* placeOrder: validateAndComputeOrder, then Order.create with the computed
\* fee and distance; an error of the first goes to next(error) before any
\* document is created.
PlaceOrderRequest(cap, user, type, dest, vehicle, metres, env, uvc) ==
  /\ Len(orders) < cap
  /\ LET c == validateAndComputeOrder(type, dest, vehicle, metres, env)
     IN  IF c.status = "success"
         THEN /\ orders' = Append(orders,
                     [deliveryFee |-> c.deliveryFee, distance |-> c.distance]
                       @@ NewOrder(user, type, vehicle, uvc))
              /\ resp' = Placed(type, dest, vehicle, metres, env, "success", "ok",
                                Len(orders) + 1)
         ELSE /\ resp' = Placed(type, dest, vehicle, metres, env, "error", c.msg, 0)
              /\ UNCHANGED orders
  /\ UNCHANGED <<strictQuery, req, router>>

\* The inputs and the outcome of an estimateDeliveryFee request.
Estimated(restaurant, dest, vehicleType, metres, env, status, msg, fee) ==
  [op |-> "estimateDeliveryFee", restaurant |-> restaurant, dest |-> dest,
   vehicle |-> vehicleType, metres |-> metres, env |-> env,
   status |-> status, msg |-> msg, deliveryFee |-> fee]

\* estimateDeliveryFee: the restaurant and vehicleType checks, then
\* computeDeliveryFee({restaurantLocation, destinationLocation, address,
\* vehicleType}): the call has no deliveryVehicle property, so the parameter
\* deliveryVehicle of computeDeliveryFee is undefined.  A thrown error is
\* answered with 400.
EstimateDeliveryFee(restaurant, dest, vehicleType, metres, env) ==
  /\ resp' =
       IF ~restaurant
       THEN Estimated(restaurant, dest, vehicleType, metres, env, "error",
                      "restaurantNotFound", 0)
       ELSE IF vehicleType \notin {"Car", "Motor", "Bicycle"}
       THEN Estimated(restaurant, dest, vehicleType, metres, env, "error",
                      "vehicleType", 0)
       ELSE LET fee == computeDeliveryFee(dest, "undefined", metres, env)
            IN  Estimated(restaurant, dest, vehicleType, metres, env, fee.status,
                          fee.msg, fee.deliveryFee)
  /\ UNCHANGED <<orders, strictQuery, req, router>>

\* Estimates and placements with every kind of oracle answer.
NextEstimate ==
  \/ \E restaurant \in BOOLEAN, dest \in BOOLEAN, vehicleType \in Vehicles \cup {"Truck"},
        metres \in OracleDistances, env \in Environments :
          EstimateDeliveryFee(restaurant, dest, vehicleType, metres, env)
  \/ \E user \in Customers, type \in OrderTypes, dest \in BOOLEAN,
        vehicle \in Vehicles \cup {"Truck"}, metres \in OracleDistances,
        env \in Environments, uvc \in RouterCodes :
          PlaceOrderRequest(NumOrders, user, type, dest, vehicle, metres, env, uvc)

SpecEstimate == InitPair /\ [][NextEstimate]_vars

\* Placement: two orders are placed with every kind of oracle answer.
NextPlacement ==
  \E user \in Customers, type \in OrderTypes, dest \in BOOLEAN,
     vehicle \in Vehicles \cup {"Truck"}, metres \in OracleDistances,
     env \in Environments, uvc \in RouterCodes :
       PlaceOrderRequest(NumOrdersPair, user, type, dest, vehicle, metres, env, uvc)

SpecPlacement == InitPair /\ [][NextPlacement]_vars

\* Claims and completions over the socket while customers are deactivated.
NextAccounts ==
  \/ \E u \in Customers \ inactive, k \in RouterCodes :
       PlaceOrder(NumOrders, u, "Delivery", deliveryMethod[1], k)
  \/ \E i \in OrderIds : ChapaWebhook(i, "success")
  \/ \E i \in OrderIds, s \in {"Cooked", "Cancelled"} : UpdateOrderStatusHook(i, s)
  \/ \E x \in req : UpdateOrderStatusWrite(x)
  \/ \E u \in Customers : DeleteUser(u)
  \/ \E c \in Couriers, i \in OrderIds : SocketAcceptOrderRead(c, i)
  \/ \E x \in req, k \in RouterCodes : SocketAcceptOrderSave(x, k)
  \/ \E c \in Couriers, i \in OrderIds : SocketCompleteOrderRead(c, i)
  \/ \E x \in req : SocketCompleteOrderSave(x)

SpecAccounts == InitPair /\ [][NextAccounts]_vars

\* The events of an order's life: the customer and an admin connect and
\* disconnect, courier 1 claims and completes over the socket, the restaurant
\* moves the order with updateOrderStatus.
NextEvents ==
  \/ \E u \in Customers, k \in RouterCodes :
       PlaceOrder(NumOrders, u, "Delivery", deliveryMethod[1], k)
  \/ \E i \in OrderIds : ChapaWebhook(i, "success")
  \/ \E i \in OrderIds, s \in {"Cooked", "Delivering", "Completed"} :
       UpdateOrderStatusHook(i, s)
  \/ \E x \in req : UpdateOrderStatusWrite(x)
  \/ \E c \in PairCouriers, i \in OrderIds : SocketAcceptOrderRead(c, i)
  \/ \E x \in req, k \in RouterCodes : SocketAcceptOrderSave(x, k)
  \/ \E c \in PairCouriers, i \in OrderIds : SocketCompleteOrderRead(c, i)
  \/ \E x \in req : SocketCompleteOrderSave(x)
  \/ \E s \in {CustomerDevice, AdminDevice} : Connect(s)
  \/ \E s \in {CustomerDevice, AdminDevice} : Disconnect(s)

SpecEvents == InitPair /\ [][NextEvents]_vars

\* Locations: every device connects and disconnects, couriers send every
\* kind of payload.
NextLocation ==
  \/ \E s \in Sockets : Connect(s)
  \/ \E s \in Sockets : Disconnect(s)
  \/ \E s \in Sockets, location \in Payloads : LocationUpdate(s, ValidLocation(location))

SpecLocation == InitPair /\ [][NextLocation]_vars

\* ---- claims ------------------------------------------------------------------

\* The step just taken answered a claim of an order with success.
ClaimSucceeded == resp.op \in ClaimOps /\ resp.status = "success"

\* The orders a courier holds in a non-terminal status.
Held(c) ==
  {j \in OrderIds : orders[j].deliveryId = c /\ orders[j].orderStatus \notin Terminal}

\* C1: of the claims that distinct couriers issue concurrently on one order
\* that is Cooked, Delivery-mode and unassigned, exactly one succeeds and every
\* other is answered with the 'not available' error: a claim answered after a
\* rival's claim of the same open order succeeded is such an error.
C1_LosersNotAvailable ==
  (resp.op \in ClaimOps /\ resp.afterRival)
    => (resp.status = "error" /\ resp.msg = "notAvailable")

\* C1, the case: a second courier's claim of the open order is answered with
\* success after the first courier's was.
C1_TwoWinners == ClaimSucceeded /\ resp.afterRival

\* C2: no courier is the deliveryId of two different orders in a non-terminal
\* status, also when the courier's claims of two orders run concurrently.
C2_OneActiveOrder == \A c \in Couriers : Cardinality(Held(c)) <= 1

\* C2, the case: one courier is the deliveryId of two Cooked orders.
C2_TwoCookedHeld ==
  \E c \in Couriers :
    Cardinality({j \in Held(c) : orders[j].orderStatus = "Cooked"}) = 2

\* C3: every change of an order's status, by any operation, is an edge of
\* STATUS_FLOW; the status of a Completed or Cancelled order never changes.
C3_StatusFlow ==
  [][\A i \in OrderIds :
       orders'[i].orderStatus # orders[i].orderStatus
         => orders'[i].orderStatus \in STATUS_FLOW[orders[i].orderStatus]]_vars

\* C4: a claim is answered with success only if the order was Cooked,
\* Delivery-mode and without deliveryId when the assigning write was applied.
C4_ClaimOnlyOpen ==
  [][(resp'.op \in ClaimOps /\ resp'.status = "success")
       => ClaimFilter(resp'.o)]_vars

\* C5: a claim by a courier whose deliveryMethod differs from the order's
\* deliveryVehicle is rejected on every claim path.
C5_VehicleMatch ==
  ClaimSucceeded => deliveryMethod[resp.who] = orders[resp.o].deliveryVehicle

\* C6: once an order's deliveryId is set to a courier no operation sets it to
\* a different courier, and no operation sets the deliveryId of a Completed or
\* Cancelled order.
C6_DeliveryIdSetOnce ==
  [][\A i \in OrderIds :
       orders'[i].deliveryId # orders[i].deliveryId
         => /\ orders[i].deliveryId = Absent
            /\ orders[i].orderStatus \notin Terminal]_vars

\* C7: the step that answers a claim with success sets the order's deliveryId
\* to the claimant, changes orderStatus from Cooked to Delivering and stores
\* the newly generated pickup code it answers with, all at once.
C7_ClaimEffects ==
  [][(resp'.op \in ClaimOps /\ resp'.status = "success")
       => /\ orders'[resp'.o].deliveryId = resp'.who
          /\ orders[resp'.o].orderStatus = "Cooked"
          /\ orders'[resp'.o].orderStatus = "Delivering"
          /\ resp'.code # Absent
          /\ orders'[resp'.o].deliveryVerificationCode = resp'.code]_vars

\* C8: pickUpOrder is answered with success, the order becoming Delivering,
\* only if the order was Cooked with a courier assigned, the submitted code
\* is the order's deliveryVerificationCode and the requester is that courier;
\* a pickUpOrder that is rejected leaves the order unchanged.
C8_PickUpGuards ==
  [][resp'.op = "pickUpOrder"
       => IF resp'.status = "success"
          THEN /\ orders[resp'.o].orderStatus = "Cooked"
               /\ orders[resp'.o].deliveryId # Absent
               /\ orders[resp'.o].deliveryVerificationCode = resp'.arg
               /\ orders[resp'.o].deliveryId = resp'.who
               /\ orders'[resp'.o].orderStatus = "Delivering"
          ELSE orders' = orders]_vars

\* C8, the case: a pickUpOrder of a courier who is not the order's deliveryId
\* is answered with success.
C8_PickedUpByOther ==
  /\ resp.op = "pickUpOrder" /\ resp.status = "success"
  /\ orders[resp.o].deliveryId \notin {Absent, resp.who}

\* C9: a delivery confirmation (verifyOrderDelivery, socket completeOrder)
\* moves an order from Delivering to Completed only if the submitted code is
\* the order's userVerificationCode and the requester is the order's courier.
C9_CompleteGuards ==
  [][\A i \in OrderIds :
       (/\ resp'.op \in {"verifyOrderDelivery", "socketCompleteOrder"}
        /\ orders[i].orderStatus = "Delivering"
        /\ orders'[i].orderStatus = "Completed")
         => /\ resp'.arg = orders[i].userVerificationCode
            /\ resp'.who = orders[i].deliveryId]_vars

\* C9, the case: verifyOrderDelivery with a code that is not the order's
\* userVerificationCode is answered with success on the completed order.
C9_VerifiedWithWrongCode ==
  /\ resp.op = "verifyOrderDelivery" /\ resp.status = "success"
  /\ orders[resp.o].orderStatus = "Completed"
  /\ resp.arg # orders[resp.o].userVerificationCode

\* C10: every update request that names a field other than orderStatus,
\* deliveryId or updatedAt is rejected: none is answered with success.
C10_ForbiddenFieldRejected ==
  resp.status = "success" => resp.names \subseteq allowedFields

\* The step is updateOrderStatus(i, s) with s no allowed successor of the
\* status order i has when the request's hook reads it (no status is a
\* successor of Completed or Cancelled).
BadStatusUpdate(i, s) ==
  /\ s \notin STATUS_FLOW[orders[i].orderStatus]
  /\ UpdateOrderStatusHook(i, s)

\* C11 as stated: a status update whose target is no allowed successor of the
\* current status fails with a transition error and changes no field of any
\* order.
C11_TransitionError ==
  [][\A i \in OrderIds, s \in Statuses :
       BadStatusUpdate(i, s)
         => /\ resp'.status = "error"
            /\ resp'.msg \in {"transition", "terminal"}
            /\ orders' = orders]_vars

\* C11 amended: such a status update is refused in the same step and changes
\* no field of any order; the error is the transition error when the order is
\* paid, and 'Order not found' when it is not.
C11_RejectedUnchanged ==
  [][\A i \in OrderIds, s \in Statuses :
       BadStatusUpdate(i, s)
         => /\ resp'.status = "error"
            /\ resp'.msg = IF ~PaidFilter(i) THEN "notFound"
                           ELSE IF orders[i].orderStatus \in Terminal THEN "terminal"
                           ELSE "transition"
            /\ orders' = orders
            /\ req' = req]_vars

\* C11, the case: updateOrderStatus on a paid order was refused with the
\* transition error (current status not terminal, or terminal).
C11_Refused ==
  /\ resp.op = "updateOrderStatus" /\ resp.status = "error"
  /\ resp.msg \in {"transition", "terminal"}
  /\ orders[resp.o].txStatus = "Paid"

\* C12: once an order is Completed or Cancelled no operation changes its
\* status, its deliveryId or either of its verification codes.
C12_TerminalImmutable ==
  [][\A i \in OrderIds :
       orders[i].orderStatus \in Terminal
         => /\ orders'[i].orderStatus = orders[i].orderStatus
            /\ orders'[i].deliveryId = orders[i].deliveryId
            /\ orders'[i].deliveryVerificationCode = orders[i].deliveryVerificationCode
            /\ orders'[i].userVerificationCode = orders[i].userVerificationCode]_vars

\* C12, the case: a claim of a Cancelled order was answered with success and
\* the order carries the claimant and a pickup code.
C12_CancelledClaimed ==
  /\ ClaimSucceeded
  /\ orders[resp.o].orderStatus = "Cancelled"
  /\ orders[resp.o].deliveryId = resp.who
  /\ orders[resp.o].deliveryVerificationCode = resp.code
  /\ resp.code # Absent

\* C13: every read of the order collection that does not pass
\* bypassPaidFilter (the listings, the count of the courier pool, the
\* router's startup scan) returns or counts only orders whose
\* transaction.status is Paid.
C13_ReadsOnlyPaid ==
  /\ resp.op \in ReadOps => \A j \in resp.ids : orders[j].txStatus = "Paid"
  /\ \A j \in ActiveOrdersFound : orders[j].txStatus = "Paid"
  /\ \A j \in OrderIds : ClaimFilter(j) => orders[j].txStatus = "Paid"

\* C13, the case: the count of the courier pool was read while the ledger
\* holds an unpaid order next to a paid Cooked one, and counted only the
\* paid one.
C13_CountWithUnpaid ==
  /\ resp.op = "getAvailableCookedOrdersCount" /\ resp.code = 1
  /\ \E j \in OrderIds : orders[j].txStatus # "Paid"

\* The couriers with an entry in activeDeliveryOrders.
Cached == {c \in Couriers : activeDeliveryOrders[c] # NoActive}

\* The step that ends a startup: the scan of populateActiveOrders, or the
\* start of the module that never scans.
StartupEnds == scan' # scan /\ scan' # "pending"

\* C14: after a restart with K Delivering orders that have a courier, the
\* rebuilt activeDeliveryOrders holds an entry for each of these K orders
\* under its courier when the startup has ended.
C14_CacheRebuilt ==
  [][StartupEnds =>
       \A j \in ActiveOrdersFound :
         activeDeliveryOrders'[orders[j].deliveryId] =
           [orderId |-> j, userId |-> orders[j].userId]]_vars

\* C14 (the case): the started module never scans, an order is Delivering
\* and the cache is empty.
C14_NeverRebuilt == scan = "never" /\ ActiveOrdersFound # {} /\ Cached = {}

\* The Delivering orders of courier c.
DeliveringOf(c) ==
  {j \in OrderIds : orders[j].orderStatus = "Delivering" /\ orders[j].deliveryId = c}

\* C15: when a courier that is the deliveryId of a Delivering order connects,
\* the connect step ends with an activeDeliveryOrders entry of the courier for
\* that order and its customer, and requestLocationUpdate was emitted on the
\* connection.
C15_ConnectRestores ==
  [][(resp'.op = "connection" /\ resp'.status = "admitted"
      /\ SocketUser(resp'.sock).role = "Delivery_Person")
     => \A j \in DeliveringOf(resp'.who) :
          /\ activeDeliveryOrders'[resp'.who] = [orderId |-> j, userId |-> orders[j].userId]
          /\ [ev |-> "requestLocationUpdate", to |-> resp'.sock] \in resp'.events]_vars

\* C15 (the case): a courier with a Delivering order has just connected and
\* has no entry in activeDeliveryOrders.
C15_ConnectedWithoutEntry ==
  /\ resp.op = "connection" /\ resp.status = "admitted"
  /\ SocketUser(resp.sock).role = "Delivery_Person"
  /\ DeliveringOf(resp.who) # {}
  /\ activeDeliveryOrders[resp.who] = NoActive

\* The registry entries and rooms the connection handler gives to user u
\* on socket s.
OwnEntries(u, s) ==
  CASE u.role = "Customer" -> {Entry("customer", u.id, s)}
    [] u.role = "Delivery_Person" -> {Entry(u.method, 0, s), Entry("deliverySockets", u.id, s)}
    [] u.role = "Manager" -> {Entry("managerSockets", u.id, s)}
    [] u.role = "Admin" -> {Entry("adminSockets", u.id, s)}
    [] OTHER -> {}

Reached(ev) == {e.to : e \in {d \in resp.events : d.ev = ev}}

\* C17: a valid locationUpdate of a courier is emitted to every connected
\* admin, and to a customer exactly when the courier has an entry in
\* activeDeliveryOrders, then to the customer of that entry only; the handler
\* raises no error.
C17_LocationFanOut ==
  (resp.op = "locationUpdate" /\ resp.status = "forwarded") =>
    LET current == activeDeliveryOrders[resp.who]
    IN  Reached("deliveryLocationUpdate") =
          {e.sid : e \in {d \in registry : d.name = "adminSockets"}} \cup
          (IF current = NoActive THEN {} ELSE Room("customer", current.userId))

\* C17 (the case): a location was forwarded to a customer while the courier
\* has no entry in activeDeliveryOrders and its order is Completed.
C17_StaleForward ==
  /\ resp.op = "locationUpdate" /\ resp.status = "forwarded"
  /\ activeDeliveryOrders[resp.who] = NoActive
  /\ CustomerDevice \in Reached("deliveryLocationUpdate")
  /\ \A j \in OrderIds : orders[j].orderStatus = "Completed"

\* C18: a disconnect removes the socket from its role registry; when the
\* socket was the only connection of its courier that held an entry of
\* activeDeliveryOrders, the courier's entry is cleared; no field of any order
\* changes.
C18_DisconnectEffects ==
  [][(resp'.op = "disconnect") =>
       LET s == resp'.sock
           others == {t \in conn \ {s} : SocketUser(t).role = "Delivery_Person"
                                         /\ SocketUser(t).id = SocketUser(s).id
                                         /\ sockActiveOrder[t] # NoActive}
       IN  /\ s \in conn /\ s \notin conn'
           /\ {e \in registry' : e.sid = s} = {}
           /\ {e \in registry' : e.sid # s} = {e \in registry : e.sid # s}
           /\ (SocketUser(s).role = "Delivery_Person" /\ sockActiveOrder[s] # NoActive
               /\ others = {})
              => activeDeliveryOrders'[SocketUser(s).id] = NoActive
           /\ orders' = orders]_vars

\* C18 (the case): the only connection of a courier that held its active
\* order has just disconnected while the order is Delivering.
C18_SoleHolderLeft ==
  /\ resp.op = "disconnect"
  /\ SocketUser(resp.sock).role = "Delivery_Person"
  /\ DeliveringOf(resp.who) # {}
  /\ activeDeliveryOrders[resp.who] = NoActive
  /\ \A t \in conn : SocketUser(t).id = resp.who => SocketUser(t).role # "Delivery_Person"

\* The orders an active-assignment entry refers to: the entries of
\* activeDeliveryOrders and the socket.activeOrder of the live connections.
Assigned ==
  {activeDeliveryOrders[c].orderId : c \in Cached} \cup
  {sockActiveOrder[s].orderId : s \in {t \in conn : sockActiveOrder[t] # NoActive}}

\* C19: no entry of activeDeliveryOrders and no socket.activeOrder of a live
\* connection refers to an order that is Completed or Cancelled.
C19_NoEntryForTerminal ==
  \A j \in OrderIds : orders[j].orderStatus \in Terminal => j \notin Assigned

\* C19 (the case): a location of the courier of a Cancelled order has just
\* been forwarded to the order's customer.
C19_ForwardedAfterCancel ==
  /\ resp.op = "locationUpdate" /\ resp.status = "forwarded"
  /\ CustomerDevice \in Reached("deliveryLocationUpdate")
  /\ \E j \in OrderIds : orders[j].orderStatus = "Cancelled" /\ j \in Assigned

\* C20: for every vehicle of Car, Motor, Bicycle and every distance the
\* oracle answers, computeDeliveryFee returns the integer
\* ceiling(base + perKm * distanceKm); equal inputs give equal fees and a
\* longer distance never gives a lower fee for the same vehicle and rates.
C20_FeeFormula ==
  (resp.op = "computeDeliveryFee" /\ resp.dest /\ resp.vehicle \in Vehicles
   /\ resp.metres \notin {NoRoute, OracleDown}) =>
    LET rate == rateConfig(resp.env)[resp.vehicle]
        thousandths == rate.base * 1000 + rate.perKm * resp.metres
    IN  /\ resp.status = "success"
        /\ resp.deliveryFee \in Int
        /\ (resp.deliveryFee - 1) * 1000 < thousandths
        /\ thousandths <= resp.deliveryFee * 1000
        /\ \A x \in req :
             (x.status = "success" /\ x.vehicle = resp.vehicle /\ x.env = resp.env
              /\ x.metres <= resp.metres) =>
               /\ x.deliveryFee <= resp.deliveryFee
               /\ x.metres = resp.metres => x.deliveryFee = resp.deliveryFee

\* C20 (the case): the oracle answered the distance 0 for a known vehicle
\* and the estimation failed.
C20_ZeroDistanceRejected ==
  /\ resp.op = "computeDeliveryFee" /\ resp.dest /\ resp.vehicle \in Vehicles
  /\ resp.metres = 0
  /\ resp.status = "error" /\ resp.msg = "distanceFailed"

\* The fee formula for the distances above 0.
C20_PositiveDistances ==
  (resp.op = "computeDeliveryFee" /\ resp.metres = 0) \/ C20_FeeFormula

C22_NoOrderWithoutFee ==
  [][/\ (resp'.op = "placeOrder" /\ resp'.type = "Delivery"
         /\ (~resp'.dest \/ resp'.metres \in {OracleDown, NoRoute}
             \/ resp'.vehicle \notin {"Car", "Motor", "Bicycle"}))
        => resp'.status = "error" /\ orders' = orders
     /\ \A j \in 1..Len(orders') :
          orders'[j].typeOfOrder = "Delivery" =>
            \E env \in Environments :
              LET fee == computeDeliveryFee(TRUE, orders'[j].deliveryVehicle,
                                            orders'[j].distance, env)
              IN  fee.status = "success" /\ fee.deliveryFee = orders'[j].deliveryFee]_vars

\* C22 (the case): a Delivery order is stored and the placement of a second
\* one has just failed on the oracle.
C22_PlacementFailedOnOracle ==
  /\ resp.op = "placeOrder" /\ resp.type = "Delivery" /\ resp.status = "error"
  /\ resp.metres = OracleDown /\ resp.dest /\ resp.vehicle \in Vehicles
  /\ Len(orders) = 1 /\ orders[1].typeOfOrder = "Delivery"

\* C23: a claim that answers its caller with an error has changed no order
\* and written no cache entry, and a claim whose write changed an order
\* answers its caller with success.
C23_ErrorLeavesLedger ==
  [][resp'.op \in ClaimOps =>
       /\ resp'.status = "error" =>
            /\ orders' = orders
            /\ activeDeliveryOrders' = activeDeliveryOrders
            /\ sockActiveOrder' = sockActiveOrder
       /\ orders' # orders => resp'.status = "success"]_vars

\* C23 (the case): the write of a claim is committed and the handler has
\* ended without an answer to its caller.
C23_CommittedUnanswered ==
  /\ resp.op = "socketAcceptOrder" /\ resp.status = "unhandled"
  /\ orders[resp.o].deliveryId = resp.who
  /\ activeDeliveryOrders[resp.who] = NoActive

\* C24: a payment callback for an existing order sets transaction.status to
\* Paid when the reported status is success and to Failed otherwise.
C24_PaymentStatus ==
  [][\A i \in OrderIds, reported \in {"success", "failed"} :
       ChapaWebhook(i, reported) =>
         orders'[i].txStatus = IF reported = "success" THEN "Paid" ELSE "Failed"]_vars

\* C24 (the case): a callback was refused by the validation of the save and
\* the order is still Pending.
C24_FailedRefused ==
  /\ resp.op = "chapaWebhook" /\ resp.status = "error" /\ resp.msg = "validation"
  /\ orders[resp.o].txStatus = "Pending"

\* The sockets that answer r emitted event ev to; an answer of a REST
\* handler emits nothing over the sockets.
Notified(r, ev) ==
  IF "events" \in DOMAIN r THEN {e.to : e \in {d \in r.events : d.ev = ev}} ELSE {}

\* C25: the operation that sets the courier of an order emits the acceptance
\* event to the order's customer, the operation that moves an order to
\* Completed emits the order-completed event to the order's customer and to
\* every connected admin, and no operation emits either event without that
\* transition.
C25_TransitionEvents ==
  [][\A i \in OrderIds :
       LET claimed == orders[i].deliveryId = Absent /\ orders'[i].deliveryId # Absent
           completed == orders[i].orderStatus # "Completed"
                        /\ orders'[i].orderStatus = "Completed"
           audience == Room("customer", orders[i].userId)
           admins == {e.sid : e \in {d \in registry : d.name = "adminSockets"}}
       IN  /\ claimed => audience \subseteq Notified(resp', "orderAccepted")
           /\ completed => (audience \cup admins) \subseteq Notified(resp', "orderCompleted")
           /\ ~claimed => Notified(resp', "orderAccepted") = {}
           /\ ~completed => Notified(resp', "orderCompleted") = {}]_vars

\* C25 (the case): updateOrderStatus has just moved the order to Completed
\* while its customer is connected.
C25_CompletedSilently ==
  /\ resp.op = "updateOrderStatus" /\ resp.status = "success"
  /\ orders[resp.o].orderStatus = "Completed"
  /\ Room("customer", orders[resp.o].userId) # {}

\* C26: the write of an update that passed the pre-update hook
\* (updateOrderStatus, pickUpOrder) never moves an order to a status that is
\* not an allowed successor of the status the order has when the write is
\* applied.
C26_HookAtomic ==
  [][\A i \in OrderIds :
       (resp'.op \in {"updateOrderStatus", "pickUpOrder"}
        /\ orders'[i].orderStatus # orders[i].orderStatus)
       => orders'[i].orderStatus \in STATUS_FLOW[orders[i].orderStatus]]_vars

\* C26 (the case): a cancellation and a pickup of one order have both passed
\* the hook and wait for their writes.
C26_TwoPassedHook ==
  \E x, y \in req :
    /\ x.op = "updateOrderStatus" /\ y.op = "pickUpOrder"
    /\ x.pc = "write" /\ y.pc = "write" /\ x.o = y.o
    /\ x.upd.orderStatus = "Cancelled"

\* C27: when the socket acceptOrder handler resumes after its database calls
\* and writes activeDeliveryOrders, the connection it runs on is still live.
C27_EntryOnlyForLive ==
  [][(resp'.op = "socketAcceptOrder"
      /\ activeDeliveryOrders'[resp'.who] # NoActive
      /\ activeDeliveryOrders'[resp'.who] # activeDeliveryOrders[resp'.who])
     => resp'.who \in conn']_vars

\* C27 (the case): a claim was answered with success, the courier has an
\* entry in activeDeliveryOrders and no connection.
C27_EntryAfterDisconnect ==
  /\ resp.op = "socketAcceptOrder" /\ resp.status = "success"
  /\ activeDeliveryOrders[resp.who] # NoActive
  /\ \A s \in conn : SocketUser(s).id # resp.who \/ SocketUser(s).role # "Delivery_Person"

\* C28: an order that is claimed and not yet picked up carries a pickup code
\* and no delivery code.
C28_CodesByPhase ==
  \A i \in OrderIds :
    (orders[i].deliveryId # Absent
     /\ orders[i].orderStatus \in {"Pending", "Preparing", "Cooked"})
    => /\ orders[i].deliveryVerificationCode # Absent
       /\ orders[i].userVerificationCode = Absent

\* C28 (the case): a Cooked order is claimed, carries its pickup code and
\* carries the delivery code it was created with.
C28_BothCodesBeforePickup ==
  \E i \in OrderIds :
    /\ orders[i].deliveryId # Absent /\ orders[i].orderStatus = "Cooked"
    /\ orders[i].deliveryVerificationCode # Absent
    /\ orders[i].userVerificationCode # Absent

\* C29: a locationUpdate is stored in lastDeliveryLocations and fanned out
\* exactly when its payload carries two finite numbers, 0 included; any other
\* payload is dropped and changes no cache.
C29_FiniteCoordinates ==
  [][\A s \in Sockets, location \in Payloads :
       LocationUpdate(s, ValidLocation(location)) =>
         IF location.latitude \in {"zero", "number"}
            /\ location.longitude \in {"zero", "number"}
         THEN resp'.status = "forwarded" /\ SocketUser(s).id \in lastDeliveryLocations'
         ELSE /\ resp'.status = "dropped"
              /\ lastDeliveryLocations' = lastDeliveryLocations
              /\ sockActiveOrder' = sockActiveOrder]_vars

\* C29 (the case): a location of a connected courier has just been dropped
\* and the courier has no last location.
C29_LocationDropped ==
  /\ resp.op = "locationUpdate" /\ resp.status = "dropped"
  /\ resp.sock \in conn
  /\ resp.who \notin lastDeliveryLocations

\* C30: an estimateDeliveryFee request with an existing restaurant, a
\* destination, a vehicle of Car, Motor, Bicycle and a distance from the
\* oracle answers with the fee validateAndComputeOrder computes, and
\* placeOrder stores, for the same vehicle and distance.
C30_EstimateEqualsStored ==
  (resp.op = "estimateDeliveryFee" /\ resp.restaurant /\ resp.dest
   /\ resp.vehicle \in Vehicles /\ resp.metres > 0) =>
    LET stored == validateAndComputeOrder("Delivery", TRUE, resp.vehicle, resp.metres,
                                          resp.env)
    IN  /\ resp.status = "success"
        /\ stored.status = "success"
        /\ resp.deliveryFee = stored.deliveryFee

\* C30 (the case): an estimate for a Car with a destination and a distance
\* from the oracle was refused for its vehicle type.
C30_EstimateRejected ==
  /\ resp.op = "estimateDeliveryFee" /\ resp.restaurant /\ resp.dest
  /\ resp.vehicle = "Car" /\ resp.metres > 0
  /\ resp.status = "error" /\ resp.msg = "invalidVehicle"

\* C31: whenever a claim by REST acceptOrder or by the socket acceptOrder
\* that uses findOneAndUpdate is answered with success, the stored order has
\* the claimant as its deliveryId and a stored pickup code, the one the
\* answer carries.
C31_ClaimPersisted ==
  (resp.op \in {"acceptOrder", "socketAcceptOrderAtomic"} /\ resp.status = "success")
    => /\ orders[resp.o].deliveryId = resp.who
       /\ orders[resp.o].deliveryVerificationCode # Absent
       /\ orders[resp.o].deliveryVerificationCode = resp.code

\* C31, the case: REST acceptOrder answered success and the order it names
\* has no courier and no pickup code.
C31_SuccessNothingStored ==
  /\ resp.op = "acceptOrder" /\ resp.status = "success"
  /\ orders[resp.o].deliveryId = Absent
  /\ orders[resp.o].deliveryVerificationCode = Absent
  /\ resp.code = Absent

\* C32: in every reachable state an order whose orderStatus is Delivering or
\* Completed has a deliveryId: no order becomes Delivering without a courier
\* assigned to it.
C32_DeliveringHasCourier ==
  \A i \in OrderIds :
    orders[i].orderStatus \in {"Delivering", "Completed"} => orders[i].deliveryId # Absent

\* C32, the case: updateOrderStatus has just moved a Delivery order that no
\* courier claimed from Cooked to Delivering.
C32_DeliveringUnassigned ==
  /\ resp.op = "updateOrderStatus" /\ resp.status = "success"
  /\ orders[resp.o].typeOfOrder = "Delivery"
  /\ orders[resp.o].orderStatus = "Delivering"
  /\ orders[resp.o].deliveryId = Absent

\* C33: in every reachable state every entry of activeDeliveryOrders agrees
\* with the orders: its order exists, has the entry's courier as deliveryId
\* and the entry's customer as userId, and is neither Completed nor Cancelled.
C33_CacheAgreesWithLedger ==
  \A c \in Cached :
    LET e == activeDeliveryOrders[c]
    IN  /\ e.orderId \in OrderIds
        /\ orders[e.orderId].deliveryId = c
        /\ orders[e.orderId].userId = e.userId
        /\ orders[e.orderId].orderStatus \notin Terminal

\* C33, the case: updateOrderStatus has just cancelled the order that the
\* entry of its courier names.
C33_CancelledUnderEntry ==
  /\ resp.op = "updateOrderStatus" /\ resp.status = "success"
  /\ orders[resp.o].orderStatus = "Cancelled"
  /\ orders[resp.o].deliveryId \in Cached
  /\ activeDeliveryOrders[orders[resp.o].deliveryId].orderId = resp.o

\* The requests that claim an order or change its status.
OrderWriteOps ==
  ClaimOps \cup {"pickUpOrder", "verifyOrderDelivery", "socketCompleteOrder",
                 "socketCompleteOrderNoSession", "updateOrderStatus"}

\* C34: an order whose payment status is not Paid is never claimed and its
\* status never changes: no claim, pickup, delivery confirmation or status
\* update of an unpaid order is answered with success, no step changes
\* anything of an unpaid order but its payment status, and so every order
\* with a deliveryId or a status other than Pending is Paid.
C34_UnpaidUntouched ==
  [][/\ \A i \in OrderIds :
          orders[i].txStatus # "Paid"
            => /\ [orders'[i] EXCEPT !.txStatus = orders[i].txStatus] = orders[i]
               /\ (resp'.op \in OrderWriteOps /\ resp'.o = i) => resp'.status # "success"
     /\ \A i \in DOMAIN orders' :
          (orders'[i].deliveryId # Absent \/ orders'[i].orderStatus # "Pending")
            => orders'[i].txStatus = "Paid"]_vars

\* C34, the case: a courier's claim of an unpaid order has just been refused
\* and the order is Pending and unassigned as before.
C34_UnpaidClaimRefused ==
  /\ resp.op \in ClaimOps /\ resp.status = "error" /\ resp.o \in OrderIds
  /\ orders[resp.o].txStatus = "Pending"
  /\ orders[resp.o].orderStatus = "Pending"
  /\ orders[resp.o].deliveryId = Absent

\* ---- callbacks of the socket handlers ------------------------------------------

\* process.on('unhandledRejection'): a rejected promise nobody handles (an
\* async socket handler that threw outside its try block or inside its catch
\* block) closes io and the http server and exits the process; the maps, the
\* connections and the suspended handlers are gone with it.
UnhandledRejection ==
  /\ resp.status = "unhandled"
  /\ req' = {}
  /\ activeDeliveryOrders' = [c \in Couriers |-> NoActive]
  /\ sockActiveOrder' = [s \in Sockets |-> NoActive]
  /\ lastDeliveryLocations' = {}
  /\ conn' = {}
  /\ registry' = {}
  /\ mapKeys' = {}
  /\ scan' \in {"pending", "never"}
  /\ resp' = [after |-> resp.op] @@ Answer(Call("unhandledRejection", 0, 0, 0), "exit", "ok", 0)
  /\ UNCHANGED <<orders, strictQuery, inactive>>

\* The socket claim and completion handlers of the three socket modules,
\* with customers that are deactivated and the handler of unhandled
\* rejections.
NextCallbacks ==
  \/ \E u \in Customers \ inactive, k \in RouterCodes :
       PlaceOrder(NumOrders, u, "Delivery", deliveryMethod[1], k)
  \/ \E i \in OrderIds : ChapaWebhook(i, "success")
  \/ \E i \in OrderIds, s \in {"Cooked", "Cancelled"} : UpdateOrderStatusHook(i, s)
  \/ \E x \in req : UpdateOrderStatusWrite(x)
  \/ \E u \in Customers : DeleteUser(u)
  \/ \E c \in Couriers, i \in OrderIds : SocketAcceptOrderRead(c, i)
  \/ \E x \in req, k \in RouterCodes : SocketAcceptOrderSave(x, k)
  \/ \E c \in Couriers, i \in OrderIds : SocketAcceptOrderAccepted(c, i)
  \/ \E c \in Couriers, i \in OrderIds : SocketAcceptOrderNoSession(c, i)
  \/ \E c \in Couriers, i \in OrderIds : SocketCompleteOrderRead(c, i)
  \/ \E x \in req : SocketCompleteOrderSave(x)
  \/ \E c \in Couriers, i \in OrderIds : SocketCompleteOrderNoSession(c, i)
  \/ Connect(1)
  \/ UnhandledRejection

SpecCallbacks == InitPair /\ [][NextCallbacks]_vars

\* The socket acceptOrder and completeOrder handlers.
SocketOps ==
  {"socketAcceptOrder", "socketAcceptOrderAccepted", "socketAcceptOrderNoSession",
   "socketCompleteOrder", "socketCompleteOrderNoSession"}

\* C35: every socket acceptOrder and completeOrder request is answered
\* through its callback, with the status success or error, and the process
\* never exits on account of such a request.
C35_CallbackOnce ==
  /\ resp.op \in SocketOps => resp.status \in {"success", "error"}
  /\ resp.op = "unhandledRejection" => resp.after \notin SocketOps

\* C35, the case: the process has exited after a socket completeOrder whose
\* transaction was committed, the order being Completed.
C35_ExitAfterCommit ==
  /\ resp.op = "unhandledRejection" /\ resp.after = "socketCompleteOrder"
  /\ \E i \in OrderIds : orders[i].orderStatus = "Completed"

\* The live connections of courier c.
LiveOf(c) ==
  {t \in conn : SocketUser(t).role = "Delivery_Person" /\ SocketUser(t).id = c}

\* C36: when a courier has two live connections that both hold the
\* courier's active assignment, the disconnect of one of them keeps the
\* courier's entry of activeDeliveryOrders; a disconnect clears the entry
\* only when it is the courier's last connection.
C36_EntryUntilLastLeaves ==
  [][resp'.op = "disconnect" /\ SocketUser(resp'.sock).role = "Delivery_Person"
     => LET s == resp'.sock
            c == resp'.who
        IN  /\ (/\ activeDeliveryOrders[c] # NoActive
                /\ sockActiveOrder[s] = activeDeliveryOrders[c]
                /\ \E t \in LiveOf(c) \ {s} : sockActiveOrder[t] = activeDeliveryOrders[c])
               => activeDeliveryOrders'[c] = activeDeliveryOrders[c]
            /\ (activeDeliveryOrders[c] # NoActive /\ activeDeliveryOrders'[c] = NoActive)
               => LiveOf(c) \ {s} = {}]_vars

\* C36, the case: one of two connections of a courier has just
\* disconnected, the other is live and holds the assignment, and the
\* courier has no entry in activeDeliveryOrders.
C36_EntryLostWithOneLeft ==
  /\ resp.op = "disconnect"
  /\ \E t \in LiveOf(resp.who) :
       /\ sockActiveOrder[t] # NoActive
       /\ orders[sockActiveOrder[t].orderId].deliveryId = resp.who
       /\ orders[sockActiveOrder[t].orderId].orderStatus \notin Terminal
  /\ activeDeliveryOrders[resp.who] = NoActive

\* C37: no sequence of operations puts an order into the status Preparing.
C37_NeverPreparing ==
  \A i \in OrderIds : orders[i].orderStatus # "Preparing"

\* C37, the case: a status update of a paid Pending order has just been
\* refused as no edge of the status flow (Preparing is one of the refused
\* targets), and the order is Pending as before.
C37_UpdateOffFlowRefused ==
  /\ resp.op = "updateOrderStatus" /\ resp.status = "error" /\ resp.msg = "transition"
  /\ orders[resp.o].txStatus = "Paid"
  /\ orders[resp.o].orderStatus = "Pending"
  /\ "Preparing" \notin STATUS_FLOW[orders[resp.o].orderStatus]

\* C38: the stored payment status of an order is always Pending or Paid,
\* and once it is Paid no later payment callback, replayed or failing,
\* changes it.
C38_PaidIsFinal ==
  [][\A i \in DOMAIN orders' :
        /\ orders'[i].txStatus \in {"Pending", "Paid"}
        /\ (i \in OrderIds /\ orders[i].txStatus = "Paid") => orders'[i].txStatus = "Paid"]_vars

\* C38, the case: a failing payment callback for a Paid order has just been
\* processed and the order is Paid.
C38_FailedAfterPaid ==
  /\ resp.op = "chapaWebhook" /\ resp.status = "error"
  /\ orders[resp.o].txStatus = "Paid"

\* C39: in every reachable state the count of getAvailableCookedOrdersCount,
\* which counts without the Paid filter, is the number of orders that
\* getAvailableCookedOrders, which reads through it, returns: an answer of
\* either is what the other gives on the same orders.
C39_CountEqualsListing ==
  LET open == {j \in OrderIds : ClaimFilter(j)}
      paidOpen == {j \in open : orders[j].txStatus = "Paid"}
  IN  /\ resp.op = "getAvailableCookedOrdersCount" => resp.code = Cardinality(paidOpen)
      /\ resp.op = "getAvailableCookedOrders" => resp.code = Cardinality(open)

\* C39, the case: the listing has just returned the one paid Cooked order of
\* a ledger that also holds an unpaid order.
C39_ListedNextToUnpaid ==
  /\ resp.op = "getAvailableCookedOrders" /\ Cardinality(resp.ids) = 1
  /\ \E k \in OrderIds : k \notin resp.ids /\ orders[k].txStatus = "Pending"
                          /\ orders[k].typeOfOrder = "Delivery"

\* The three registry Maps and the role whose sockets each holds.
RegistryRole ==
  [deliverySockets |-> "Delivery_Person", managerSockets |-> "Manager",
   adminSockets |-> "Admin"]

\* C40: in every reachable state of the registries managerSockets,
\* adminSockets and deliverySockets no key maps to an empty set, every
\* socket id stored under a user is a connected socket of that user with
\* the role of the registry, and a user none of whose connections is open
\* is a key of no registry.
C40_RegistriesExact ==
  /\ \A k \in mapKeys :
       /\ k.name \in DOMAIN RegistryRole
       /\ {e \in registry : e.name = k.name /\ e.key = k.key} # {}
       /\ \E t \in conn : /\ SocketUser(t).id = k.key
                          /\ SocketUser(t).role = RegistryRole[k.name]
  /\ \A e \in registry :
       e.name \in DOMAIN RegistryRole
         => /\ [name |-> e.name, key |-> e.key] \in mapKeys
            /\ e.sid \in conn
            /\ SocketUser(e.sid).id = e.key
            /\ SocketUser(e.sid).role = RegistryRole[e.name]

\* C40, the case: the last connection of a courier has just disconnected
\* while an admin and a manager are connected; their keys are there, the
\* courier's is not.
C40_LastCourierSocketLeft ==
  /\ resp.op = "disconnect" /\ SocketUser(resp.sock).role = "Delivery_Person"
  /\ \A t \in conn : SocketUser(t).role = "Delivery_Person" => SocketUser(t).id # resp.who
  /\ {AdminDevice, ManagerDevice} \subseteq conn
  /\ Cardinality(mapKeys) = 2

====
